---------------------------- MODULE Spec2Model ----------------------------
(***************************************************************************)
(* Recurring-income projection and aggregation of cashflowr:               *)
(*   - the calendar stepping primitives of cashflowSeries.ts               *)
(*     (addMonthsClamped, nextOccurrence, payDateForOccurrence,            *)
(*     firstOnOrAfter),                                                    *)
(*   - buildMonthlyIncomeSeries (the dashboard's monthly series),          *)
(*   - the run-rate / year-to-date useMemo of IncomeManageModal.           *)
(*                                                                         *)
(* A JavaScript Date is modelled as a record [y, m, d, t] in local time:   *)
(* y the full year, m the month index 0..11, d the day of the month and t  *)
(* the time of day, abstracted to three instants: 0 is 00:00:00.000, 1 is  *)
(* some instant strictly inside the day and 2 is 23:59:59.999.             *)
(***************************************************************************)
EXTENDS Integers, Sequences, FiniteSets, TLC

VARIABLES
    call,     \* the operation applied and its arguments
    ret       \* what the operation returned

vars == <<call, ret>>

Null == [null |-> TRUE]

Min(a, b) == IF a <= b THEN a ELSE b

(***************************************************************************)
(* Bounds of the model.                                                    *)
(***************************************************************************)
LastYear == 2025
MaxDelta == 13

(***************************************************************************)
(* The Date constructor and the Gregorian calendar behind it.              *)
(***************************************************************************)
IsLeap(y) == (y % 4 = 0 /\ y % 100 # 0) \/ y % 400 = 0

MonthLen(y, m) ==
    IF m = 1 THEN (IF IsLeap(y) THEN 29 ELSE 28)
    ELSE IF m \in {3, 5, 8, 10} THEN 30
    ELSE 31

\* new Date(y, m, d, ...) normalises an out-of-range month index into the
\* year and an out-of-range day into the neighbouring months.
RECURSIVE NewDate(_, _, _, _)
NewDate(y, m, d, t) ==
    LET yy == y + (m \div 12)
        mm == m % 12
    IN  IF d < 1 THEN
            LET py == yy + ((mm - 1) \div 12)
                pm == (mm - 1) % 12
            IN  NewDate(py, pm, d + MonthLen(py, pm), t)
        ELSE IF d > MonthLen(yy, mm) THEN
            NewDate(yy, mm + 1, d - MonthLen(yy, mm), t)
        ELSE [y |-> yy, m |-> mm, d |-> d, t |-> t]

\* Date.getTime(): dates compare (<, <=, ===) by their instant.
getTime(dt) == ((dt.y * 12 + dt.m) * 32 + dt.d) * 3 + dt.t

(***************************************************************************)
(* Calendar stepping primitives.                                           *)
(***************************************************************************)
daysInMonth(year, monthIndex) == NewDate(year, monthIndex + 1, 0, 0).d

endOfDay(d) == NewDate(d.y, d.m, d.d, 2)

addMonthsClampedNoClamp(d, monthsToAdd) ==
    LET target == NewDate(d.y, d.m + monthsToAdd, 1, 0)
    IN  NewDate(target.y, target.m, d.d, 0)

addMonthsClamped(d, monthsToAdd) ==
    LET target == NewDate(d.y, d.m + monthsToAdd, 1, 0)
        ty == target.y
        tm == target.m
        day == Min(d.d, daysInMonth(ty, tm))
    IN  NewDate(ty, tm, day, 0)

nextOccurrence(d, freq) ==
    CASE freq = "monthly" -> addMonthsClamped(d, 1)
      [] freq = "quarterly" -> addMonthsClamped(d, 3)
      [] freq = "yearly" -> addMonthsClamped(d, 12)
      [] OTHER -> d

payDateForOccurrenceNextMonth(d, freq) ==
    IF freq = "monthly" \/ freq = "quarterly"
    THEN NewDate(d.y, d.m + 2, 0, 2)
    ELSE d

payDateForOccurrence(d, freq) ==
    IF freq = "monthly" \/ freq = "quarterly"
    THEN NewDate(d.y, d.m + 1, 0, 2)
    ELSE d

stepMonthsOf(freq) ==
    CASE freq = "monthly" -> 1
      [] freq = "quarterly" -> 3
      [] freq = "yearly" -> 12
      [] OTHER -> 0

\* the while loop of firstOnOrAfter
RECURSIVE firstOnOrAfterLoop(_, _, _)
firstOnOrAfterLoop(cur, target, stepMonths) ==
    IF getTime(cur) < getTime(target)
    THEN LET next == addMonthsClamped(cur, stepMonths)
         IN  IF getTime(next) = getTime(cur) THEN cur
             ELSE firstOnOrAfterLoop(next, target, stepMonths)
    ELSE cur

firstOnOrAfter(start, target, freq) ==
    IF getTime(start) >= getTime(target) THEN start
    ELSE
        LET stepMonths == stepMonthsOf(freq)
        IN  IF stepMonths = 0 THEN start
            ELSE
                LET diffMonths == (target.y - start.y) * 12 + (target.m - start.m)
                    k == (diffMonths \div stepMonths) * stepMonths
                IN  firstOnOrAfterLoop(addMonthsClamped(start, k), target, stepMonths)

(***************************************************************************)
(* Inputs of the calendar primitives.                                      *)
(***************************************************************************)
Frequencies == {"once", "monthly", "quarterly", "yearly"}
Recurring == {"monthly", "quarterly", "yearly"}

Years == 2023..LastYear

Dates ==
    {[y |-> y, m |-> m, d |-> d, t |-> t] :
        y \in Years, m \in 0..11, d \in 1..31, t \in 0..2}
    \ {dt \in [y : Years, m : 0..11, d : 29..31, t : 0..2] : dt.d > MonthLen(dt.y, dt.m)}

AnchorDates == {dt \in Dates : dt.d \in {1, 15, 28, 29, 30, 31} /\ dt.t \in {0, 1}}

TargetDates == {dt \in Dates : dt.d \in {1, 15, 30} /\ dt.t = 0}

(***************************************************************************)
(* The calendar primitives applied to drawn inputs.                        *)
(***************************************************************************)
Init ==
    /\ call = [op |-> "none"]
    /\ ret = Null

CallAddMonthsClamped ==
    /\ call.op = "none"
    /\ \E d \in Dates, n \in (0 - MaxDelta)..MaxDelta :
        /\ call' = [op |-> "addMonthsClamped", d |-> d, n |-> n]
        /\ ret' = addMonthsClamped(d, n)

CallNextOccurrence ==
    /\ call.op = "none"
    /\ \E d \in Dates, freq \in Frequencies :
        /\ call' = [op |-> "nextOccurrence", d |-> d, freq |-> freq]
        /\ ret' = nextOccurrence(d, freq)

CallPayDateForOccurrence ==
    /\ call.op = "none"
    /\ \E d \in Dates, freq \in Frequencies :
        /\ call' = [op |-> "payDateForOccurrence", d |-> d, freq |-> freq]
        /\ ret' = payDateForOccurrence(d, freq)

CallFirstOnOrAfter ==
    /\ call.op = "none"
    /\ \E start \in AnchorDates, target \in TargetDates, freq \in Frequencies :
        /\ call' = [op |-> "firstOnOrAfter", start |-> start,
                    target |-> target, freq |-> freq]
        /\ ret' = firstOnOrAfter(start, target, freq)

Next ==
    \/ CallAddMonthsClamped
    \/ CallNextOccurrence
    \/ CallPayDateForOccurrence
    \/ CallFirstOnOrAfter

Spec == Init /\ [][Next]_vars

(***************************************************************************)
(* Claims about the calendar primitives.                                   *)
(***************************************************************************)
D(y, m, d, t) == [y |-> y, m |-> m, d |-> d, t |-> t]

\* C1: addMonthsClamped(d, n) lies in the month n calendar months after d's
\* month (negative n and year roll-over included) and its day of the month
\* is min(day(d), days of that month); Jan 31 + 1 month is Feb 28 in a
\* non-leap year and Feb 29 in a leap year, Feb 29 2024 + 12 is Feb 28 2025.
C1_AddMonthsClamped ==
    call.op = "addMonthsClamped" =>
        LET d == call.d
            n == call.n
        IN  /\ ret.m \in 0..11
            /\ ret.y * 12 + ret.m = d.y * 12 + d.m + n
            /\ ret.d = Min(d.d, MonthLen(ret.y, ret.m))
            /\ (d.m = 0 /\ d.d = 31 /\ n = 1 /\ d.y \in {2023, 2025, 2026}) =>
                    (ret.y = d.y /\ ret.m = 1 /\ ret.d = 28)
            /\ (d.m = 0 /\ d.d = 31 /\ n = 1 /\ d.y = 2024) =>
                    (ret.y = 2024 /\ ret.m = 1 /\ ret.d = 29)
            /\ (d.y = 2024 /\ d.m = 1 /\ d.d = 29 /\ n = 12) =>
                    (ret.y = 2025 /\ ret.m = 1 /\ ret.d = 28)

C1_Witness ==
    /\ call.op = "addMonthsClamped"
    /\ call.d = D(2024, 1, 29, 0)
    /\ call.n = 12
    /\ ret = D(2025, 1, 28, 0)

\* C2 as stated: for monthly and quarterly payDateForOccurrence(d, freq) is
\* the last day of the month FOLLOWING d's month at 23:59:59.999, and for
\* yearly and once it is d itself.
C2_PayDateFollowingMonth ==
    call.op = "payDateForOccurrence" =>
        IF call.freq \in {"monthly", "quarterly"}
        THEN /\ ret.y * 12 + ret.m = call.d.y * 12 + call.d.m + 1
             /\ ret.d = MonthLen(ret.y, ret.m)
             /\ ret.t = 2
        ELSE ret = call.d

\* C2 amended: for monthly and quarterly payDateForOccurrence(d, freq) is
\* the last day of d's OWN calendar month at 23:59:59.999, and for yearly
\* and once it is d itself.
C2_PayDateOwnMonth ==
    call.op = "payDateForOccurrence" =>
        IF call.freq \in {"monthly", "quarterly"}
        THEN /\ ret.y = call.d.y
             /\ ret.m = call.d.m
             /\ ret.d = MonthLen(call.d.y, call.d.m)
             /\ ret.t = 2
        ELSE ret = call.d

C2_Witness ==
    /\ call.op = "payDateForOccurrence"
    /\ call.freq = "monthly"
    /\ call.d = D(2024, 1, 10, 1)
    /\ ret = D(2024, 1, 29, 2)

\* The naive linear scan: the first element >= target of the sequence
\* start, nextOccurrence(start), nextOccurrence(nextOccurrence(start)), ...
RECURSIVE NaiveScan(_, _, _)
NaiveScan(cur, target, freq) ==
    IF getTime(cur) >= getTime(target) THEN cur
    ELSE NaiveScan(nextOccurrence(cur, freq), target, freq)

\* C3: for every anchor, target and recurring frequency firstOnOrAfter
\* returns exactly what the naive linear scan from the anchor returns, also
\* for anchors on day 29, 30 or 31.
C3_FirstOnOrAfterIsNaiveScan ==
    (call.op = "firstOnOrAfter" /\ call.freq \in Recurring) =>
        ret = NaiveScan(call.start, call.target, call.freq)

(***************************************************************************)
(* buildMonthlyIncomeSeries (cashflowSeries.ts).                           *)
(*                                                                         *)
(* An income row is a record [id, amountCents, frequency, scope,           *)
(* createdByUid, date, endDate]; a missing amountCents or frequency is a   *)
(* record without that field, a missing date or endDate is Null, and a     *)
(* date that does not parse is the value Unparseable.                      *)
(***************************************************************************)
Unparseable == [invalid |-> TRUE]

IsDate(v) == DOMAIN v = {"y", "m", "d", "t"}

\* toDateSafe: null for a missing or unparseable value, the Date otherwise
toDateSafe(d) == IF IsDate(d) THEN d ELSE Null

\* d.toLocaleDateString("es-ES", {month: "short"}) with its first letter
\* upper-cased
MonthShort ==
    <<"Ene", "Feb", "Mar", "Abr", "May", "Jun",
      "Jul", "Ago", "Sept", "Oct", "Nov", "Dic">>

monthLabel(d) == MonthShort[d.m + 1]

SeriesGuard == 600

windowEnd(now) == NewDate(now.y, now.m, 1, 0)

windowStartOffByOne(end, monthsBack) == addMonthsClamped(end, 0 - monthsBack)

windowStart(end, monthsBack) == addMonthsClamped(end, 0 - (monthsBack - 1))

\* idx of a month key in the window, and buckets[idx] += cents when
addToBucketOverwrites(buckets, monthKey, start, monthsBack, cents) ==
    LET idx == (monthKey.y - start.y) * 12 + (monthKey.m - start.m)
    IN  IF idx >= 0 /\ idx < monthsBack
        THEN [buckets EXCEPT ![idx + 1] = cents]
        ELSE buckets

\* 0 <= idx < monthsBack (buckets is 1-based here)
addToBucket(buckets, monthKey, start, monthsBack, cents) ==
    LET idx == (monthKey.y - start.y) * 12 + (monthKey.m - start.m)
    IN  IF idx >= 0 /\ idx < monthsBack
        THEN [buckets EXCEPT ![idx + 1] = @ + cents]
        ELSE buckets

inWindow(monthKey, start, end) ==
    ~(getTime(monthKey) < getTime(start) \/ getTime(monthKey) > getTime(end))

seriesEffectiveEndRaw(endDateRaw, now) ==
    IF endDateRaw # Null /\ getTime(endDateRaw) < getTime(now)
    THEN endDateRaw
    ELSE now

\* endDate = endOfDay(endDateRaw);
\* effectiveEnd = endDate && endDate < now ? endDate : now
seriesEffectiveEnd(endDateRaw, now) ==
    LET endDate == IF endDateRaw # Null THEN endOfDay(endDateRaw) ELSE Null
    IN  IF endDate # Null /\ getTime(endDate) < getTime(now)
        THEN endDate
        ELSE now

\* the occurrence loop of a recurring row
RECURSIVE seriesLoop(_, _, _, _, _, _, _, _, _)
seriesLoop(cur, guard, buckets, freq, cents, effectiveEnd, start, end, monthsBack) ==
    IF getTime(cur) <= getTime(effectiveEnd) /\ guard < SeriesGuard
    THEN
        LET payDate == payDateForOccurrence(cur, freq)
            monthKey == NewDate(payDate.y, payDate.m, 1, 0)
            added ==
                IF getTime(payDate) <= getTime(effectiveEnd)
                   /\ inWindow(monthKey, start, end)
                THEN addToBucket(buckets, monthKey, start, monthsBack, cents)
                ELSE buckets
            nxt == nextOccurrence(cur, freq)
        IN  IF getTime(nxt) = getTime(cur) THEN added
            ELSE seriesLoop(nxt, guard + 1, added, freq, cents,
                            effectiveEnd, start, end, monthsBack)
    ELSE buckets

onceRowAlways(buckets, startDate, cents, now, start, end, monthsBack) ==
    addToBucket(buckets, NewDate(startDate.y, startDate.m, 1, 0),
                start, monthsBack, cents)

\* the branch of a once row
onceRow(buckets, startDate, cents, now, start, end, monthsBack) ==
    IF getTime(startDate) > getTime(now) THEN buckets
    ELSE
        LET monthKey == NewDate(startDate.y, startDate.m, 1, 0)
        IN  IF ~inWindow(monthKey, start, end) THEN buckets
            ELSE addToBucket(buckets, monthKey, start, monthsBack, cents)

\* the body of "for (const r of rows)"
seriesRow(buckets, r, now, start, end, monthsBack) ==
    LET cents == IF "amountCents" \in DOMAIN r THEN r.amountCents ELSE 0
        hasFreq == "frequency" \in DOMAIN r
        freq == r.frequency
        startDate == toDateSafe(r.date)
    IN  IF cents <= 0 THEN buckets
        ELSE IF startDate = Null \/ ~hasFreq THEN buckets
        ELSE IF freq = "once"
        THEN onceRow(buckets, startDate, cents, now, start, end, monthsBack)
        ELSE IF getTime(startDate) > getTime(now) THEN buckets
        ELSE seriesLoop(firstOnOrAfter(startDate, start, freq), 0, buckets,
                        freq, cents,
                        seriesEffectiveEnd(toDateSafe(r.endDate), now),
                        start, end, monthsBack)

RECURSIVE seriesRows(_, _, _, _, _, _, _)
seriesRows(buckets, rows, i, now, start, end, monthsBack) ==
    IF i > Len(rows) THEN buckets
    ELSE seriesRows(seriesRow(buckets, rows[i], now, start, end, monthsBack),
                    rows, i + 1, now, start, end, monthsBack)

buildMonthlyIncomeSeries(rows, now, monthsBack) ==
    LET end == windowEnd(now)
        start == windowStart(end, monthsBack)
        labels == [i \in 1..monthsBack |-> monthLabel(addMonthsClamped(start, i - 1))]
        zero == [i \in 1..monthsBack |-> 0]
    IN  [labels |-> labels,
         cents |-> seriesRows(zero, rows, 1, now, start, end, monthsBack)]

(***************************************************************************)
(* Inputs of the series builder.                                           *)
(***************************************************************************)
Row(id, amountCents, frequency, scope, createdByUid, date, endDate) ==
    [id |-> id, amountCents |-> amountCents, frequency |-> frequency,
     scope |-> scope, createdByUid |-> createdByUid,
     date |-> date, endDate |-> endDate]

SeriesNows ==
    {D(2024, 5, 30, 0), D(2024, 5, 30, 2), D(2024, 1, 29, 1),
     D(2024, 0, 1, 0), D(2023, 11, 31, 2)}

MonthsBacks == {1, 2, 3, 12}

SeriesDates ==
    {dt \in Dates :
        /\ dt.y \in {2023, 2024}
        /\ \/ dt.d = 1 /\ dt.t \in {0, 1}
           \/ dt.d = 16 /\ dt.t = 1
           \/ dt.d = 31 /\ dt.t = 0}

SeriesEndDates ==
    {Null} \cup
    {dt \in Dates :
        /\ <<dt.y, dt.m>> \in {<<2023, 8>>, <<2024, 1>>, <<2024, 4>>, <<2024, 5>>}
        /\ \/ dt.d = 15 /\ dt.t = 0
           \/ dt.d = MonthLen(dt.y, dt.m) /\ dt.t \in {0, 2}}

BigRows ==
    {Row("r1", 10000, f, "shared", "A", dt, e) :
        f \in Frequencies, dt \in SeriesDates, e \in SeriesEndDates}

Without(r, field) == [f \in DOMAIN r \ {field} |-> r[f]]

SmallRowsFull ==
    {Row("r1", a, f, "shared", "A", dt, Null) :
        a \in {0, 2500},
        f \in {"once", "monthly"},
        dt \in {Unparseable, D(2024, 0, 1, 0), D(2023, 5, 15, 1)}}

SmallRows ==
    SmallRowsFull
    \cup {Without(r, "amountCents") : r \in SmallRowsFull}
    \cup {Without(r, "frequency") : r \in SmallRowsFull}

SeriesInputs ==
    {<<>>}
    \cup {<<r>> : r \in BigRows \cup SmallRows}
    \cup {<<a, [b EXCEPT !.id = "r2"]>> : a \in SmallRows, b \in SmallRows}

CallBuildMonthlyIncomeSeries ==
    /\ call.op = "none"
    /\ \E rows \in SeriesInputs, now \in SeriesNows, monthsBack \in MonthsBacks :
        /\ call' = [op |-> "buildMonthlyIncomeSeries", rows |-> rows,
                    now |-> now, monthsBack |-> monthsBack]
        /\ ret' = buildMonthlyIncomeSeries(rows, now, monthsBack)

NextSeries == CallBuildMonthlyIncomeSeries

SpecSeries == Init /\ [][NextSeries]_vars

(***************************************************************************)
(* Claims about buildMonthlyIncomeSeries.                                  *)
(***************************************************************************)
MonthNo(d) == d.y * 12 + d.m

\* the calendar month of bucket i (1-based): monthsBack - i months before
\* the month of now
BucketMonth(now, monthsBack, i) == MonthNo(now) - (monthsBack - i)

MonthStartOf(monthNo) == D(monthNo \div 12, monthNo % 12, 1, 0)

RECURSIVE SumSeq(_)
SumSeq(q) == IF Len(q) = 0 THEN 0 ELSE Head(q) + SumSeq(Tail(q))

\* a row with a positive amount, a frequency and a date that parses
WellFormed(r) ==
    /\ {"amountCents", "frequency"} \subseteq DOMAIN r
    /\ r.amountCents > 0
    /\ IsDate(r.date)

SeriesCalled == call.op = "buildMonthlyIncomeSeries"

\* C4: the series has exactly monthsBack labels and monthsBack buckets;
\* bucket i stands for the month monthsBack-1-i months before the month of
\* now (0-based i), so the labels name those months in order and a once
\* row dated in a window month, not after now, is found in that month's
\* bucket and in no other, also across a year boundary.
C4_WindowBuckets ==
    SeriesCalled =>
        LET now == call.now
            mb == call.monthsBack
            rows == call.rows
        IN  /\ DOMAIN ret.labels = 1..mb
            /\ DOMAIN ret.cents = 1..mb
            /\ \A i \in 1..mb :
                ret.labels[i] = MonthShort[(BucketMonth(now, mb, i) % 12) + 1]
            /\ (/\ Len(rows) = 1
                /\ WellFormed(rows[1])
                /\ rows[1].frequency = "once"
                /\ getTime(rows[1].date) <= getTime(now)) =>
                    \A i \in 1..mb :
                        ret.cents[i] =
                            IF MonthNo(rows[1].date) = BucketMonth(now, mb, i)
                            THEN rows[1].amountCents
                            ELSE 0

C4_Witness ==
    /\ SeriesCalled
    /\ call.now = D(2024, 0, 1, 0)
    /\ call.monthsBack = 3
    /\ call.rows = <<Row("r1", 10000, "once", "shared", "A", D(2023, 10, 16, 1), Null)>>
    /\ ret.labels = <<"Nov", "Dic", "Ene">>
    /\ ret.cents = <<10000, 0, 0>>

\* the first n occurrences of a recurring series starting at first
RECURSIVE Occurrences(_, _, _)
Occurrences(first, freq, n) ==
    IF n = 0 THEN <<>>
    ELSE <<first>> \o Occurrences(nextOccurrence(first, freq), freq, n - 1)

OccBound == 14

\* how many occurrences of row r, enumerated from
\* firstOnOrAfter(start, windowStart, freq), have a pay date <= effEnd that
\* lies in the month of bucket i
PaidInBucket(r, now, monthsBack, i, effEnd) ==
    LET winStart == MonthStartOf(BucketMonth(now, monthsBack, 1))
        occs == Occurrences(firstOnOrAfter(r.date, winStart, r.frequency),
                            r.frequency, OccBound)
    IN  Cardinality({k \in 1..OccBound :
            /\ getTime(occs[k]) <= getTime(effEnd)
            /\ getTime(payDateForOccurrence(occs[k], r.frequency)) <= getTime(effEnd)
            /\ MonthNo(payDateForOccurrence(occs[k], r.frequency))
                    = BucketMonth(now, monthsBack, i)})

AllRecurringStarted(rows, now) ==
    /\ Len(rows) >= 1
    /\ \A k \in 1..Len(rows) :
        /\ WellFormed(rows[k])
        /\ rows[k].frequency \in Recurring
        /\ getTime(rows[k].date) <= getTime(now)

\* the effective end as C5 words it: min(endDate, now) when endDate is set
\* and in the past, now otherwise
EffectiveEndAsStated(r, now) ==
    IF r.endDate # Null /\ getTime(r.endDate) < getTime(now)
    THEN r.endDate
    ELSE now

\* the effective end with endDate taken at the end of its day
EffectiveEndOfDay(r, now) ==
    IF r.endDate # Null /\ getTime(D(r.endDate.y, r.endDate.m, r.endDate.d, 2)) < getTime(now)
    THEN D(r.endDate.y, r.endDate.m, r.endDate.d, 2)
    ELSE now

\* C5 as stated: a recurring row with start <= now adds its amount to a
\* bucket once per occurrence whose pay date is <= the effective end and in
\* that bucket's month, the effective end being min(endDate, now) when
\* endDate is set and in the past and now otherwise.
C5_RecurringByStatedEnd ==
    (SeriesCalled /\ AllRecurringStarted(call.rows, call.now)) =>
        \A i \in 1..call.monthsBack :
            ret.cents[i] =
                SumSeq([k \in 1..Len(call.rows) |->
                    call.rows[k].amountCents
                    * PaidInBucket(call.rows[k], call.now, call.monthsBack, i,
                                   EffectiveEndAsStated(call.rows[k], call.now))])

\* C5 amended: the same, the effective end being the END OF THE DAY
\* (23:59:59.999) of endDate when that instant is before now, and now
\* otherwise.
C5_RecurringByEndOfDay ==
    (SeriesCalled /\ AllRecurringStarted(call.rows, call.now)) =>
        \A i \in 1..call.monthsBack :
            ret.cents[i] =
                SumSeq([k \in 1..Len(call.rows) |->
                    call.rows[k].amountCents
                    * PaidInBucket(call.rows[k], call.now, call.monthsBack, i,
                                   EffectiveEndOfDay(call.rows[k], call.now))])

C5_Witness ==
    /\ SeriesCalled
    /\ call.now = D(2024, 5, 30, 0)
    /\ call.monthsBack = 12
    /\ call.rows = <<Row("r1", 10000, "monthly", "shared", "A",
                         D(2024, 0, 1, 0), D(2024, 1, 29, 0))>>
    /\ ret.cents = <<0, 0, 0, 0, 0, 0, 10000, 10000, 0, 0, 0, 0>>

AllOnce(rows) ==
    /\ Len(rows) >= 1
    /\ \A k \in 1..Len(rows) :
        WellFormed(rows[k]) /\ rows[k].frequency = "once"

\* C6: a once row with a positive amount adds its full amount to exactly
\* one bucket, that of its date's month, if and only if its date is <= now
\* and its month is a month of the window; otherwise it changes no bucket.
C6_OnceRows ==
    (SeriesCalled /\ AllOnce(call.rows)) =>
        \A i \in 1..call.monthsBack :
            ret.cents[i] =
                SumSeq([k \in 1..Len(call.rows) |->
                    IF /\ getTime(call.rows[k].date) <= getTime(call.now)
                       /\ MonthNo(call.rows[k].date)
                            = BucketMonth(call.now, call.monthsBack, i)
                    THEN call.rows[k].amountCents
                    ELSE 0])

C6_Witness ==
    /\ SeriesCalled
    /\ call.now = D(2024, 5, 30, 0)
    /\ call.monthsBack = 12
    /\ call.rows = <<Row("r1", 2500, "once", "shared", "A", D(2024, 0, 1, 0), Null),
                     Row("r2", 2500, "once", "shared", "A", D(2023, 5, 15, 1), Null)>>
    /\ ret.cents = <<0, 0, 0, 0, 0, 0, 2500, 0, 0, 0, 0, 0>>

\* one monthly row, no end date, anchored on day 1 of a month before the
\* window start
OneOpenMonthlyBeforeWindow ==
    /\ SeriesCalled
    /\ Len(call.rows) = 1
    /\ WellFormed(call.rows[1])
    /\ call.rows[1].frequency = "monthly"
    /\ call.rows[1].endDate = Null
    /\ call.rows[1].date.d = 1
    /\ MonthNo(call.rows[1].date) < BucketMonth(call.now, call.monthsBack, 1)

\* C7 as stated: such a row of amount A fills all N buckets with A,
\* the bucket of the month containing now included.
C7_AllBucketsFull ==
    OneOpenMonthlyBeforeWindow =>
        \A i \in 1..call.monthsBack : ret.cents[i] = call.rows[1].amountCents

LastInstantOfMonth(now) == now.d = MonthLen(now.y, now.m) /\ now.t = 2

\* C7 amended: such a row of amount A fills every bucket before the last
\* with A; the bucket of the month containing now holds A when now is the
\* last instant of its month (what the dashboard passes, endOfMonth(now))
\* and 0 otherwise, the month's pay date being its last instant.
C7_FullButCurrentMonth ==
    OneOpenMonthlyBeforeWindow =>
        /\ \A i \in 1..(call.monthsBack - 1) :
                ret.cents[i] = call.rows[1].amountCents
        /\ ret.cents[call.monthsBack] =
                IF LastInstantOfMonth(call.now) THEN call.rows[1].amountCents ELSE 0

C7_Witness ==
    /\ SeriesCalled
    /\ call.now = D(2024, 5, 30, 2)
    /\ call.monthsBack = 12
    /\ call.rows = <<Row("r1", 10000, "monthly", "shared", "A", D(2023, 0, 1, 0), Null)>>
    /\ ret.cents = [i \in 1..12 |-> 10000]

(***************************************************************************)
(* The run-rate / year-to-date useMemo of IncomeManageModal.               *)
(*                                                                         *)
(* The modal receives every row of the home (props.rows, from useIncomes)  *)
(* and the viewer (props.currentUid).  A row here also carries its source. *)
(***************************************************************************)
AggGuard == 500

IncomeRow(id, amountCents, source, frequency, scope, createdByUid, date, endDate) ==
    [id |-> id, amountCents |-> amountCents, source |-> source,
     frequency |-> frequency, scope |-> scope, createdByUid |-> createdByUid,
     date |-> date, endDate |-> endDate]

\* what the useMemo yields when ts.toDate() is called on a value that is
\* no Timestamp
TypeError == [threw |-> "TypeError"]

mathFloorDiv(a, b) == a \div b

\* Math.round(a / b) for b > 0: the nearest integer, halves towards +infinity
mathRoundDiv(a, b) == (2 * a + b) \div (2 * b)

runRateOf(freq, cents) ==
    CASE freq = "monthly" -> cents
      [] freq = "quarterly" -> mathRoundDiv(cents, 3)
      [] freq = "yearly" -> mathRoundDiv(cents, 12)
      [] OTHER -> 0

\* const end = endLive ?? now; const effectiveEnd = end < now ? end : now
aggEffectiveEnd(endLive, now) ==
    LET end == IF endLive # Null THEN endLive ELSE now
    IN  IF getTime(end) < getTime(now) THEN end ELSE now

isActiveNow(start, endLive, now) ==
    /\ getTime(start) <= getTime(now)
    /\ (endLive = Null \/ getTime(endLive) >= getTime(now))

lineIndex(breakdown, id) ==
    LET hits == {k \in 1..Len(breakdown) : breakdown[k].incomeId = id}
    IN  IF hits = {} THEN 0 ELSE CHOOSE k \in hits : TRUE

\* breakdown.get(r.id) / breakdown.set(r.id, ...): a Map keeps the order
\* in which its keys were first set
addOccurrence(breakdown, r, freq, cents) ==
    LET k == lineIndex(breakdown, r.id)
    IN  IF k = 0
        THEN Append(breakdown,
                    [incomeId |-> r.id,
                     source |-> IF "source" \in DOMAIN r THEN r.source ELSE "",
                     frequency |-> freq,
                     amountCents |-> cents,
                     count |-> 1,
                     subtotalCents |-> cents])
        ELSE [breakdown EXCEPT ![k] =
                [@ EXCEPT !.count = @ + 1, !.subtotalCents = @ + cents]]

\* the occurrence loop of a recurring row; acc is
\* [once, recurrentYtd, runRateMonthly, breakdown]
RECURSIVE aggLoop(_, _, _, _, _, _, _, _)
aggLoop(cur, guard, acc, r, freq, cents, effectiveEnd, year) ==
    IF getTime(cur) <= getTime(effectiveEnd) /\ guard < AggGuard
    THEN
        LET counted ==
                IF cur.y = year
                THEN [acc EXCEPT
                        !.recurrentYtd = @ + cents,
                        !.breakdown = addOccurrence(@, r, freq, cents)]
                ELSE acc
            nxt == nextOccurrence(cur, freq)
        IN  IF getTime(nxt) = getTime(cur) THEN counted
            ELSE aggLoop(nxt, guard + 1, counted, r, freq, cents, effectiveEnd, year)
    ELSE acc

\* does the body of "for (const r of rows)" call toDate on a non-Timestamp
rowThrows(r) ==
    LET cents == IF "amountCents" \in DOMAIN r THEN r.amountCents ELSE 0
    IN  cents > 0 /\ ~IsDate(r.date)

aggRowSkipsOnlyZero(acc, r, now, year, yearStart) ==
    LET cents == IF "amountCents" \in DOMAIN r THEN r.amountCents ELSE 0
        freq == IF "frequency" \in DOMAIN r THEN r.frequency ELSE "undefined"
    IN  IF cents = 0 THEN acc
        ELSE IF freq = "once"
        THEN IF r.date.y = year /\ getTime(r.date) <= getTime(now)
             THEN [acc EXCEPT !.once = @ + cents]
             ELSE acc
        ELSE
            LET start == r.date
                endLive == r.endDate
                withRunRate ==
                    IF isActiveNow(start, endLive, now)
                    THEN [acc EXCEPT !.runRateMonthly = @ + runRateOf(freq, cents)]
                    ELSE acc
            IN  IF getTime(start) > getTime(now) THEN acc
                ELSE aggLoop(firstOnOrAfter(start, yearStart, freq), 0,
                             withRunRate, r, freq, cents,
                             aggEffectiveEnd(endLive, now), year)

aggRowNoStartCheck(acc, r, now, year, yearStart) ==
    LET cents == IF "amountCents" \in DOMAIN r THEN r.amountCents ELSE 0
        freq == IF "frequency" \in DOMAIN r THEN r.frequency ELSE "undefined"
    IN  IF cents <= 0 THEN acc
        ELSE IF freq = "once"
        THEN IF r.date.y = year /\ getTime(r.date) <= getTime(now)
             THEN [acc EXCEPT !.once = @ + cents]
             ELSE acc
        ELSE
            LET start == r.date
                endLive == r.endDate
                withRunRate ==
                    IF endLive = Null \/ getTime(endLive) >= getTime(now)
                    THEN [acc EXCEPT !.runRateMonthly = @ + runRateOf(freq, cents)]
                    ELSE acc
            IN  aggLoop(firstOnOrAfter(start, yearStart, freq), 0,
                        withRunRate, r, freq, cents,
                        aggEffectiveEnd(endLive, now), year)

\* the body of "for (const r of rows)"
aggRow(acc, r, now, year, yearStart) ==
    LET cents == IF "amountCents" \in DOMAIN r THEN r.amountCents ELSE 0
        freq == IF "frequency" \in DOMAIN r THEN r.frequency ELSE "undefined"
    IN  IF cents <= 0 THEN acc
        ELSE IF freq = "once"
        THEN IF r.date.y = year /\ getTime(r.date) <= getTime(now)
             THEN [acc EXCEPT !.once = @ + cents]
             ELSE acc
        ELSE
            LET start == r.date
                endLive == r.endDate
                withRunRate ==
                    IF isActiveNow(start, endLive, now)
                    THEN [acc EXCEPT !.runRateMonthly = @ + runRateOf(freq, cents)]
                    ELSE acc
            IN  IF getTime(start) > getTime(now) THEN acc
                ELSE aggLoop(firstOnOrAfter(start, yearStart, freq), 0,
                             withRunRate, r, freq, cents,
                             aggEffectiveEnd(endLive, now), year)

\* for (const r of rows): every row of props.rows is read, whatever its
\* scope and creator
RECURSIVE aggRows(_, _, _, _, _, _)
aggRows(acc, rows, i, now, year, yearStart) ==
    IF i > Len(rows) THEN acc
    ELSE IF rowThrows(rows[i]) THEN TypeError
    ELSE aggRows(aggRow(acc, rows[i], now, year, yearStart),
                 rows, i + 1, now, year, yearStart)

RECURSIVE insertLineAscending(_, _)
insertLineAscending(sorted, line) ==
    IF Len(sorted) = 0 THEN <<line>>
    ELSE IF Head(sorted).subtotalCents <= line.subtotalCents
    THEN <<Head(sorted)>> \o insertLineAscending(Tail(sorted), line)
    ELSE <<line>> \o sorted

\* Array.prototype.sort((a, b) => b.subtotalCents - a.subtotalCents): stable
RECURSIVE insertLine(_, _)
insertLine(sorted, line) ==
    IF Len(sorted) = 0 THEN <<line>>
    ELSE IF Head(sorted).subtotalCents >= line.subtotalCents
    THEN <<Head(sorted)>> \o insertLine(Tail(sorted), line)
    ELSE <<line>> \o sorted

RECURSIVE sortLines(_, _)
sortLines(sorted, rest) ==
    IF Len(rest) = 0 THEN sorted
    ELSE sortLines(insertLine(sorted, Head(rest)), Tail(rest))

aggregateYtdWithoutOnce(rows, now) ==
    LET year == now.y
        yearStart == NewDate(year, 0, 1, 0)
        acc == aggRows([once |-> 0, recurrentYtd |-> 0, runRateMonthly |-> 0,
                        breakdown |-> <<>>],
                       rows, 1, now, year, yearStart)
    IN  IF acc = TypeError THEN TypeError
        ELSE [ytdCents |-> acc.recurrentYtd,
              runRateMonthlyCents |-> acc.runRateMonthly,
              onceYtdCents |-> acc.once,
              recurrentYtdCents |-> acc.recurrentYtd,
              ytdLines |-> sortLines(<<>>, acc.breakdown)]

\* the useMemo: year is new Date().getFullYear() and now is new Date();
\* props.currentUid is not read
aggregate(rows, now) ==
    LET year == now.y
        yearStart == NewDate(year, 0, 1, 0)
        acc == aggRows([once |-> 0, recurrentYtd |-> 0, runRateMonthly |-> 0,
                        breakdown |-> <<>>],
                       rows, 1, now, year, yearStart)
    IN  IF acc = TypeError THEN TypeError
        ELSE [ytdCents |-> acc.once + acc.recurrentYtd,
              runRateMonthlyCents |-> acc.runRateMonthly,
              onceYtdCents |-> acc.once,
              recurrentYtdCents |-> acc.recurrentYtd,
              ytdLines |-> sortLines(<<>>, acc.breakdown)]

(***************************************************************************)
(* Inputs of the aggregation.                                              *)
(***************************************************************************)
Uids == {"A", "B"}

AggNows ==
    {D(2024, 5, 30, 0), D(2024, 0, 15, 1), D(2024, 1, 29, 2), D(2024, 11, 31, 2)}

AggDates ==
    {dt \in Dates :
        /\ \/ dt.y = 2023 /\ dt.m \in {0, 10}
           \/ dt.y = 2024 /\ dt.m \in {0, 1, 5, 11}
        /\ \/ dt.d = 1 /\ dt.t \in {0, 1}
           \/ dt.d = 15 /\ dt.t = 1
           \/ dt.d = 31 /\ dt.t = 0}

AggEndDates ==
    {Null, D(2023, 11, 31, 2), D(2024, 0, 31, 0), D(2024, 1, 29, 2),
     D(2024, 5, 30, 0), D(2024, 11, 31, 2)}

AggBigRows ==
    {IncomeRow("r1", a, "job", f, sc, "A", dt, e) :
        a \in {5, 6, 9000}, f \in Frequencies, sc \in {"shared", "personal"},
        dt \in AggDates, e \in AggEndDates}

AggSmallRows ==
    {IncomeRow("r1", 9000, "job", f, "shared", "A", D(2024, 0, 1, 0), e) :
        f \in Recurring, e \in {Null, D(2024, 0, 31, 2)}}
    \cup {IncomeRow("r1", a, "gift", "once", sc, "B", D(2024, 0, 15, 1), Null) :
        a \in {0, 9000}, sc \in {"shared", "personal"}}
    \cup {IncomeRow("r1", 6, "rent", "monthly", "personal", "B", D(2023, 10, 1, 0), Null)}
    \cup {IncomeRow("r1", 9000, "bonus", "monthly", "shared", "A", D(2024, 11, 1, 0), Null)}

AggInputs ==
    {<<>>}
    \cup {<<r>> : r \in AggBigRows \cup AggSmallRows}
    \cup {<<a, [b EXCEPT !.id = "r2"]>> : a \in AggSmallRows, b \in AggSmallRows}
    \cup {<<a, [b EXCEPT !.id = "r2"], [c EXCEPT !.id = "r3"]>> :
            a \in AggSmallRows, b \in AggSmallRows, c \in AggSmallRows}

CallAggregate ==
    /\ call.op = "none"
    /\ \E rows \in AggInputs, now \in AggNows, currentUid \in Uids :
        /\ call' = [op |-> "aggregate", rows |-> rows, now |-> now,
                    currentUid |-> currentUid]
        /\ ret' = aggregate(rows, now)

NextAggregate == CallAggregate

SpecAggregate == Init /\ [][NextAggregate]_vars

(***************************************************************************)
(* Claims about the run-rate / year-to-date aggregation.                   *)
(***************************************************************************)
AggCalled == call.op = "aggregate"

\* the visibility predicate of the specification: a shared row counts for
\* every viewer, a personal row for its creator only
countsForMe(r, viewerUid) ==
    r.scope = "shared" \/ r.createdByUid = viewerUid

RECURSIVE VisibleRows(_, _)
VisibleRows(rows, viewerUid) ==
    IF Len(rows) = 0 THEN <<>>
    ELSE (IF countsForMe(Head(rows), viewerUid) THEN <<Head(rows)>> ELSE <<>>)
         \o VisibleRows(Tail(rows), viewerUid)

\* C8: a personal row created by A contributes to ytdCents,
\* runRateMonthlyCents, onceYtdCents and recurrentYtdCents when the viewer
\* is A and contributes 0 when the viewer is another user; a shared row
\* contributes the same for every viewer.  So the four totals are those of
\* the rows visible to the viewer.
C8_TotalsOfVisibleRows ==
    AggCalled =>
        LET mine == aggregate(VisibleRows(call.rows, call.currentUid), call.now)
        IN  /\ ret.ytdCents = mine.ytdCents
            /\ ret.runRateMonthlyCents = mine.runRateMonthlyCents
            /\ ret.onceYtdCents = mine.onceYtdCents
            /\ ret.recurrentYtdCents = mine.recurrentYtdCents

\* the integer nearest to a / n, a half rounded up
Nearest(a, n) == CHOOSE q \in 0..a : (2 * n * q - 2 * a) \in (1 - n)..n

ActiveNow(r, now) ==
    /\ getTime(r.date) <= getTime(now)
    /\ (r.endDate = Null \/ getTime(r.endDate) >= getTime(now))

MonthlyEquivalent(r, now) ==
    IF r.amountCents > 0 /\ r.frequency \in Recurring /\ ActiveNow(r, now)
    THEN CASE r.frequency = "monthly" -> r.amountCents
           [] r.frequency = "quarterly" -> Nearest(r.amountCents, 3)
           [] r.frequency = "yearly" -> Nearest(r.amountCents, 12)
    ELSE 0

\* C9: runRateMonthlyCents is the sum, over the recurring rows with a
\* positive amount that are active now (start <= now and no endDate or
\* endDate >= now), of the amount for monthly, round(amount / 3) for
\* quarterly and round(amount / 12) for yearly; once rows and inactive rows
\* add nothing.  Monthly, quarterly and yearly 9000, all active, give 12750.
C9_RunRate ==
    AggCalled =>
        /\ ret.runRateMonthlyCents =
            SumSeq([k \in 1..Len(call.rows) |-> MonthlyEquivalent(call.rows[k], call.now)])
        /\ (/\ Len(call.rows) = 3
            /\ \A k \in 1..3 :
                call.rows[k].amountCents = 9000 /\ ActiveNow(call.rows[k], call.now)
            /\ {call.rows[k].frequency : k \in 1..3} = Recurring) =>
                ret.runRateMonthlyCents = 12750

C9_Witness ==
    /\ AggCalled
    /\ call.now = D(2024, 5, 30, 0)
    /\ call.rows =
        <<IncomeRow("r1", 9000, "job", "monthly", "shared", "A", D(2024, 0, 1, 0), Null),
          IncomeRow("r2", 9000, "job", "quarterly", "shared", "A", D(2024, 0, 1, 0), Null),
          IncomeRow("r3", 9000, "job", "yearly", "shared", "A", D(2024, 0, 1, 0), Null)>>
    /\ ret.runRateMonthlyCents = 12750

\* the effective end of the aggregation: min(endDate, now)
AggEffectiveEndAsStated(r, now) ==
    IF r.endDate # Null /\ getTime(r.endDate) < getTime(now) THEN r.endDate ELSE now

\* how many occurrences of row r, enumerated from
\* firstOnOrAfter(start, Jan 1 of the year, freq), have a pay date within
\* the year and at or before the effective end
PaidInYear(r, now) ==
    IF r.amountCents > 0 /\ r.frequency \in Recurring
       /\ getTime(r.date) <= getTime(now)
    THEN
        LET effEnd == AggEffectiveEndAsStated(r, now)
            occs == Occurrences(firstOnOrAfter(r.date, D(now.y, 0, 1, 0), r.frequency),
                                r.frequency, OccBound)
        IN  Cardinality({k \in 1..OccBound :
                /\ getTime(occs[k]) <= getTime(effEnd)
                /\ payDateForOccurrence(occs[k], r.frequency).y = now.y
                /\ getTime(payDateForOccurrence(occs[k], r.frequency)) <= getTime(effEnd)})
    ELSE 0

\* C10: recurrentYtdCents is the sum, over the recurring rows, of amountCents
\* times the number of occurrences whose PAY DATE (payDateForOccurrence) is
\* within the target year and at or before the effective end
\* min(endDate, now).
C10_YtdByPayDate ==
    AggCalled =>
        ret.recurrentYtdCents =
            SumSeq([k \in 1..Len(call.rows) |->
                call.rows[k].amountCents * PaidInYear(call.rows[k], call.now)])

\* C11: ytdCents = onceYtdCents + recurrentYtdCents for every row list and
\* every now, onceYtdCents being the sum of the amounts of the once rows
\* dated within the year of now and not after now.
C11_YtdIsOncePlusRecurrent ==
    AggCalled =>
        /\ ret.ytdCents = ret.onceYtdCents + ret.recurrentYtdCents
        /\ ret.onceYtdCents =
            SumSeq([k \in 1..Len(call.rows) |->
                IF /\ call.rows[k].frequency = "once"
                   /\ call.rows[k].date.y = call.now.y
                   /\ getTime(call.rows[k].date) <= getTime(call.now)
                THEN call.rows[k].amountCents
                ELSE 0])

C11_Witness ==
    /\ AggCalled
    /\ call.now = D(2024, 5, 30, 0)
    /\ call.rows =
        <<IncomeRow("r1", 9000, "gift", "once", "shared", "B", D(2024, 0, 15, 1), Null),
          IncomeRow("r2", 9000, "job", "monthly", "shared", "A", D(2024, 0, 1, 0), Null)>>
    /\ ret.onceYtdCents = 9000
    /\ ret.recurrentYtdCents = 54000
    /\ ret.ytdCents = 63000

LinesOf(lines, id) == {j \in 1..Len(lines) : lines[j].incomeId = id}

\* C12: ytdLines holds exactly one line for each recurring row that added
\* at least one occurrence to the year-to-date total and none for any other
\* row; every line has subtotalCents = amountCents * count with count >= 1;
\* the lines are in non-increasing order of subtotalCents; and their
\* subtotals add up to recurrentYtdCents.
C12_YtdLines ==
    AggCalled =>
        LET lines == ret.ytdLines
            rows == call.rows
        IN  /\ \A j \in 1..Len(lines) :
                /\ lines[j].count >= 1
                /\ lines[j].subtotalCents = lines[j].amountCents * lines[j].count
                /\ \E k \in 1..Len(rows) :
                    /\ rows[k].id = lines[j].incomeId
                    /\ rows[k].frequency \in Recurring
                    /\ rows[k].amountCents = lines[j].amountCents
            /\ \A k \in 1..Len(rows) :
                LET alone == aggregate(<<rows[k]>>, call.now).recurrentYtdCents
                    mine == LinesOf(lines, rows[k].id)
                IN  /\ Cardinality(mine) = (IF alone > 0 THEN 1 ELSE 0)
                    /\ \A j \in mine : lines[j].subtotalCents = alone
            /\ \A j \in 1..(Len(lines) - 1) :
                lines[j].subtotalCents >= lines[j + 1].subtotalCents
            /\ SumSeq([j \in 1..Len(lines) |-> lines[j].subtotalCents])
                    = ret.recurrentYtdCents

C12_Witness ==
    /\ AggCalled
    /\ call.now = D(2024, 5, 30, 0)
    /\ call.rows =
        <<IncomeRow("r1", 9000, "job", "yearly", "shared", "A", D(2024, 0, 1, 0), Null),
          IncomeRow("r2", 9000, "gift", "once", "shared", "B", D(2024, 0, 15, 1), Null),
          IncomeRow("r3", 9000, "job", "monthly", "shared", "A", D(2024, 0, 1, 0), Null)>>
    /\ Len(ret.ytdLines) = 2
    /\ ret.ytdLines[1].incomeId = "r3"
    /\ ret.ytdLines[1].count = 6
    /\ ret.ytdLines[1].subtotalCents = 54000
    /\ ret.ytdLines[2].incomeId = "r1"
    /\ ret.ytdLines[2].subtotalCents = 9000

(***************************************************************************)
(* The dashboard page: it hands the same rows to the series builder and to *)
(* the manage modal.                                                       *)
(***************************************************************************)
NextEngine == CallBuildMonthlyIncomeSeries \/ CallAggregate

SpecEngine == Init /\ [][NextEngine]_vars

\* a recurring row whose start date is after now
FutureRecurring(r, now) ==
    /\ WellFormed(r)
    /\ r.frequency \in Recurring
    /\ getTime(r.date) > getTime(now)

RECURSIVE WithoutFuture(_, _)
WithoutFuture(rows, now) ==
    IF Len(rows) = 0 THEN <<>>
    ELSE IF FutureRecurring(Head(rows), now) THEN WithoutFuture(Tail(rows), now)
    ELSE <<Head(rows)>> \o WithoutFuture(Tail(rows), now)

SomeFuture(rows, now) == \E k \in 1..Len(rows) : FutureRecurring(rows[k], now)

\* C13: a recurring row whose start date is after now adds nothing to any
\* output: every series bucket, ytdCents, recurrentYtdCents, ytdLines and
\* runRateMonthlyCents are what they are for the list without that row (and
\* all zero or empty when the list holds nothing else).
C13_FutureRowsAddNothing ==
    /\ (SeriesCalled /\ SomeFuture(call.rows, call.now)) =>
        /\ ret = buildMonthlyIncomeSeries(WithoutFuture(call.rows, call.now),
                                          call.now, call.monthsBack)
        /\ WithoutFuture(call.rows, call.now) = <<>> =>
                \A i \in 1..call.monthsBack : ret.cents[i] = 0
    /\ (AggCalled /\ SomeFuture(call.rows, call.now)) =>
        /\ ret = aggregate(WithoutFuture(call.rows, call.now), call.now)
        /\ WithoutFuture(call.rows, call.now) = <<>> =>
                /\ ret.ytdCents = 0
                /\ ret.recurrentYtdCents = 0
                /\ ret.runRateMonthlyCents = 0
                /\ ret.ytdLines = <<>>

C13_Witness ==
    /\ AggCalled
    /\ call.now = D(2024, 5, 30, 0)
    /\ call.rows =
        <<IncomeRow("r1", 9000, "bonus", "monthly", "shared", "A", D(2024, 11, 1, 0), Null),
          IncomeRow("r2", 9000, "job", "monthly", "shared", "A", D(2024, 0, 1, 0), Null)>>
    /\ ret.runRateMonthlyCents = 9000
    /\ ret.recurrentYtdCents = 54000
    /\ Len(ret.ytdLines) = 1
    /\ ret.ytdLines[1].incomeId = "r2"

\* every row is recurring, has started and has an endDate before now
AllEnded(rows, now) ==
    /\ AllRecurringStarted(rows, now)
    /\ \A k \in 1..Len(rows) :
        /\ rows[k].endDate # Null
        /\ getTime(rows[k].endDate) < getTime(now)

\* how many occurrences of row r, enumerated from firstOnOrAfter(start,
\* from, freq), are dated at or before its endDate and satisfy In
DatedUpToEnd(r, from, In(_)) ==
    LET occs == Occurrences(firstOnOrAfter(r.date, from, r.frequency),
                            r.frequency, OccBound)
    IN  Cardinality({k \in 1..OccBound :
            getTime(occs[k]) <= getTime(r.endDate) /\ In(occs[k])})

\* the aggregator's share of C14: no run rate, and in the year-to-date total
\* every occurrence of the year dated up to endDate, none after
EndedInAggregate ==
    (AggCalled /\ AllEnded(call.rows, call.now)) =>
        /\ ret.runRateMonthlyCents = 0
        /\ ret.recurrentYtdCents =
            SumSeq([k \in 1..Len(call.rows) |->
                call.rows[k].amountCents
                * DatedUpToEnd(call.rows[k], D(call.now.y, 0, 1, 0),
                               LAMBDA o : o.y = call.now.y)])
        /\ ret.ytdCents = ret.recurrentYtdCents

seriesLoopContinuesNoGuard(cur, guard, effectiveEnd) ==
    getTime(cur) <= getTime(effectiveEnd)

\* while (cur <= effectiveEnd && guard < 600)
seriesLoopContinues(cur, guard, effectiveEnd) ==
    getTime(cur) <= getTime(effectiveEnd) /\ guard < SeriesGuard

\* while (cur <= effectiveEnd && guard < 500)
aggLoopContinues(cur, guard, effectiveEnd) ==
    getTime(cur) <= getTime(effectiveEnd) /\ guard < AggGuard

LoopFrequencies == Recurring \cup {"weekly"}

LoopDates ==
    {D(1960, 0, 31, 0), D(2023, 0, 31, 0), D(2023, 5, 15, 1),
     D(2024, 0, 1, 0), D(2024, 1, 29, 0)}

LoopEndDates == {Null, D(2024, 1, 15, 0), D(2024, 4, 31, 2)}

LoopNows == {D(2024, 5, 30, 2), D(2024, 1, 29, 1)}

LoopMonthsBacks == {1, 12, 700}

LoopRows ==
    {Row("r1", 10000, f, "shared", "A", dt, e) :
        f \in LoopFrequencies, dt \in LoopDates, e \in LoopEndDates}

\* a row of buildMonthlyIncomeSeries reaches its while loop
EnterSeriesLoop ==
    /\ call.op = "none"
    /\ \E r \in LoopRows, now \in LoopNows, monthsBack \in LoopMonthsBacks :
        LET startDate == toDateSafe(r.date)
            start == windowStart(windowEnd(now), monthsBack)
        IN  /\ r.amountCents > 0
            /\ startDate # Null
            /\ r.frequency # "once"
            /\ getTime(startDate) <= getTime(now)
            /\ call' = [op |-> "seriesLoop",
                        freq |-> r.frequency,
                        effectiveEnd |-> seriesEffectiveEnd(toDateSafe(r.endDate), now)]
            /\ ret' = [pc |-> "while",
                       cur |-> firstOnOrAfter(startDate, start, r.frequency),
                       guard |-> 0,
                       iter |-> 0]

\* the loop test and, when it passes, one run of the body
SeriesLoopIteration ==
    /\ call.op = "seriesLoop"
    /\ ret.pc = "while"
    /\ UNCHANGED call
    /\ IF seriesLoopContinues(ret.cur, ret.guard, call.effectiveEnd)
       THEN LET nxt == nextOccurrence(ret.cur, call.freq)
            IN  IF getTime(nxt) = getTime(ret.cur)
                THEN ret' = [ret EXCEPT !.pc = "done", !.iter = @ + 1]
                ELSE ret' = [ret EXCEPT !.cur = nxt, !.guard = @ + 1, !.iter = @ + 1]
       ELSE ret' = [ret EXCEPT !.pc = "done"]

\* a row of the modal's aggregation reaches its while loop
EnterAggLoop ==
    /\ call.op = "none"
    /\ \E r \in LoopRows, now \in LoopNows :
        LET yearStart == NewDate(now.y, 0, 1, 0)
        IN  /\ r.amountCents > 0
            /\ r.frequency # "once"
            /\ getTime(r.date) <= getTime(now)
            /\ call' = [op |-> "aggLoop",
                        freq |-> r.frequency,
                        effectiveEnd |-> aggEffectiveEnd(r.endDate, now)]
            /\ ret' = [pc |-> "while",
                       cur |-> firstOnOrAfter(r.date, yearStart, r.frequency),
                       guard |-> 0,
                       iter |-> 0]

AggLoopIteration ==
    /\ call.op = "aggLoop"
    /\ ret.pc = "while"
    /\ UNCHANGED call
    /\ IF aggLoopContinues(ret.cur, ret.guard, call.effectiveEnd)
       THEN LET nxt == nextOccurrence(ret.cur, call.freq)
            IN  IF getTime(nxt) = getTime(ret.cur)
                THEN ret' = [ret EXCEPT !.pc = "done", !.iter = @ + 1]
                ELSE ret' = [ret EXCEPT !.cur = nxt, !.guard = @ + 1, !.iter = @ + 1]
       ELSE ret' = [ret EXCEPT !.pc = "done"]

\* firstOnOrAfter reaches its while loop: start < target and stepMonths # 0
EnterFirstOnOrAfterLoop ==
    /\ call.op = "none"
    /\ \E start \in LoopDates, target \in TargetDates, freq \in LoopFrequencies :
        LET stepMonths == stepMonthsOf(freq)
            diffMonths == (target.y - start.y) * 12 + (target.m - start.m)
            k == (diffMonths \div stepMonths) * stepMonths
        IN  /\ getTime(start) < getTime(target)
            /\ stepMonths # 0
            /\ call' = [op |-> "firstOnOrAfterLoop",
                        target |-> target,
                        stepMonths |-> stepMonths]
            /\ ret' = [pc |-> "while",
                       cur |-> addMonthsClamped(start, k),
                       guard |-> 0,
                       iter |-> 0]

FirstOnOrAfterIteration ==
    /\ call.op = "firstOnOrAfterLoop"
    /\ ret.pc = "while"
    /\ UNCHANGED call
    /\ IF getTime(ret.cur) < getTime(call.target)
       THEN LET next == addMonthsClamped(ret.cur, call.stepMonths)
            IN  IF getTime(next) = getTime(ret.cur)
                THEN ret' = [ret EXCEPT !.pc = "done", !.iter = @ + 1]
                ELSE ret' = [ret EXCEPT !.cur = next, !.iter = @ + 1]
       ELSE ret' = [ret EXCEPT !.pc = "done"]

NextLoops ==
    \/ EnterSeriesLoop
    \/ SeriesLoopIteration
    \/ EnterAggLoop
    \/ AggLoopIteration
    \/ EnterFirstOnOrAfterLoop
    \/ FirstOnOrAfterIteration

\* a loop that can take a step takes it: the code runs to completion
SpecLoops ==
    /\ Init
    /\ [][NextLoops]_vars
    /\ WF_vars(SeriesLoopIteration)
    /\ WF_vars(AggLoopIteration)
    /\ WF_vars(FirstOnOrAfterIteration)

InLoop == call.op \in {"seriesLoop", "aggLoop", "firstOnOrAfterLoop"}

InOccurrenceLoop == call.op \in {"seriesLoop", "aggLoop"}

\* the body is entered at most 600 times per row in the series loop and at
\* most 500 times in the aggregator's
IterationsBounded ==
    /\ call.op = "seriesLoop" => ret.iter <= SeriesGuard
    /\ call.op = "aggLoop" => ret.iter <= AggGuard

\* a step taken at the loop test with cur past the effective end leaves the
\* loop without entering the body
StopsPastEffectiveEnd ==
    (/\ InOccurrenceLoop
     /\ ret.pc = "while"
     /\ getTime(ret.cur) > getTime(call.effectiveEnd)) =>
        (ret'.pc = "done" /\ ret'.iter = ret.iter)

\* a step whose occurrence step returns the same date leaves the loop
BreaksOnSameDate ==
    /\ (/\ InOccurrenceLoop
        /\ ret.pc = "while"
        /\ getTime(nextOccurrence(ret.cur, call.freq)) = getTime(ret.cur)) =>
            ret'.pc = "done"
    /\ (/\ call.op = "firstOnOrAfterLoop"
        /\ ret.pc = "while"
        /\ getTime(addMonthsClamped(ret.cur, call.stepMonths)) = getTime(ret.cur)) =>
            ret'.pc = "done"

\* C16: every occurrence loop terminates however far back the anchor lies;
\* the series loop enters its body at most 600 times per row and the
\* aggregator's at most 500 times; each loop stops as soon as the current
\* occurrence is past the effective end; and each loop, the one inside
\* firstOnOrAfter included, leaves at once when a step returns the same date.
C16_LoopsTerminate ==
    /\ [](InLoop => IterationsBounded)
    /\ [][StopsPastEffectiveEnd /\ BreaksOnSameDate]_vars
    /\ (InLoop ~> (InLoop /\ ret.pc = "done"))

\* the series loop of a monthly row anchored in 1960, asked for 700 months,
\* is stopped by its guard after 600 runs of the body
C16_Witness ==
    /\ call.op = "seriesLoop"
    /\ call.freq = "monthly"
    /\ ret.pc = "done"
    /\ ret.guard = SeriesGuard
    /\ ret.iter = SeriesGuard
    /\ getTime(ret.cur) <= getTime(call.effectiveEnd)

(***************************************************************************)
(* Rows as Firestore may hold them: the amount missing, zero or negative,  *)
(* the date missing or not a Timestamp.  The dashboard casts what          *)
(* useIncomes delivers and hands it to both computations.                  *)
(***************************************************************************)
StoredRowsFull ==
    {IncomeRow("r1", a, "job", f, "shared", "A", D(2024, 0, 1, 0), Null) :
        a \in {0 - 300, 0, 2500}, f \in {"once", "monthly"}}

StoredRows ==
    StoredRowsFull
    \cup {Without(r, "amountCents") : r \in {q \in StoredRowsFull : q.amountCents = 2500}}
    \cup {IncomeRow("r1", 2500, "job", f, "shared", "A", dt, Null) :
            f \in {"once", "monthly"}, dt \in {Null, Unparseable}}
    \cup {IncomeRow("r1", 0, "job", "monthly", "shared", "A", Null, Null)}

StoredInputs ==
    {<<r>> : r \in StoredRows}
    \cup {<<a, [b EXCEPT !.id = "r2"]>> : a \in StoredRows, b \in StoredRows}
    \cup {<<a, [b EXCEPT !.id = "r2"], [c EXCEPT !.id = "r3"]>> :
            a \in StoredRows, b \in StoredRows, c \in StoredRows}

StoredNows == {D(2024, 5, 30, 0), D(2024, 0, 15, 1)}

CallBuildMonthlyIncomeSeriesStored ==
    /\ call.op = "none"
    /\ \E rows \in StoredInputs, now \in StoredNows, monthsBack \in {3, 12} :
        /\ call' = [op |-> "buildMonthlyIncomeSeries", rows |-> rows,
                    now |-> now, monthsBack |-> monthsBack]
        /\ ret' = buildMonthlyIncomeSeries(rows, now, monthsBack)

CallAggregateStored ==
    /\ call.op = "none"
    /\ \E rows \in StoredInputs, now \in StoredNows, currentUid \in Uids :
        /\ call' = [op |-> "aggregate", rows |-> rows, now |-> now,
                    currentUid |-> currentUid]
        /\ ret' = aggregate(rows, now)

NextStored == CallBuildMonthlyIncomeSeriesStored \/ CallAggregateStored

SpecStored == Init /\ [][NextStored]_vars

\* the amount is missing, zero or negative
NonPositive(r) == "amountCents" \notin DOMAIN r \/ r.amountCents <= 0

\* the anchor date is missing or does not parse
BadDate(r) == ~IsDate(r.date)

Dropping(rows, Drop(_)) == SelectSeq(rows, LAMBDA r : ~Drop(r))

\* C17: a row whose amountCents is missing, zero or negative adds nothing to
\* any aggregation: the series buckets, onceYtdCents, recurrentYtdCents,
\* ytdLines and runRateMonthlyCents are those computed without the row.
C17_NonPositiveRowsAddNothing ==
    /\ (SeriesCalled /\ \E k \in 1..Len(call.rows) : NonPositive(call.rows[k])) =>
            ret = buildMonthlyIncomeSeries(Dropping(call.rows, NonPositive),
                                           call.now, call.monthsBack)
    /\ (AggCalled /\ \E k \in 1..Len(call.rows) : NonPositive(call.rows[k])) =>
            ret = aggregate(Dropping(call.rows, NonPositive), call.now)

C17_Witness ==
    /\ AggCalled
    /\ call.now = D(2024, 5, 30, 0)
    /\ call.rows =
        <<IncomeRow("r1", 0 - 300, "job", "monthly", "shared", "A", D(2024, 0, 1, 0), Null),
          IncomeRow("r2", 2500, "job", "monthly", "shared", "A", D(2024, 0, 1, 0), Null),
          Without(IncomeRow("r3", 2500, "job", "once", "shared", "A", D(2024, 0, 1, 0), Null),
                  "amountCents")>>
    /\ ret.runRateMonthlyCents = 2500
    /\ ret.recurrentYtdCents = 15000
    /\ ret.onceYtdCents = 0
    /\ Len(ret.ytdLines) = 1

\* C18: a row whose anchor date is missing or unparseable adds nothing and
\* never makes the computation raise an error, in the series builder and in
\* the run-rate / year-to-date aggregation alike: the results for the other
\* rows are still returned.
C18_BadDateRowsAddNothing ==
    /\ (SeriesCalled /\ \E k \in 1..Len(call.rows) : BadDate(call.rows[k])) =>
            ret = buildMonthlyIncomeSeries(Dropping(call.rows, BadDate),
                                           call.now, call.monthsBack)
    /\ (AggCalled /\ \E k \in 1..Len(call.rows) : BadDate(call.rows[k])) =>
            /\ ret # TypeError
            /\ ret = aggregate(Dropping(call.rows, BadDate), call.now)

(***************************************************************************)
(* Repeated stepping of nextOccurrence.                                    *)
(***************************************************************************)
NextOccurrenceCalled == call.op = "nextOccurrence" /\ call.freq \in Recurring

\* the occurrence sequence that the loops walk from call.d: each element is
\* nextOccurrence of the one before
Steps == Occurrences(call.d, call.freq, OccBound)

\* C19 as stated: stepping does not remember the anchor's day: once
\* nextOccurrence has clamped a date, every later occurrence keeps the
\* clamped day, so the day-of-month of the sequence is non-increasing.
C19_KeepsClampedDay ==
    NextOccurrenceCalled =>
        LET occs == Steps
        IN  /\ ret = occs[2]
            /\ \A k \in 1..(OccBound - 1) : occs[k + 1].d <= occs[k].d
            /\ ret.d < call.d.d => \A k \in 2..OccBound : occs[k].d = ret.d

\* C19 amended: each occurrence's day is the smaller of the previous
\* occurrence's day and the length of its own month, so the day-of-month of
\* the sequence is non-increasing and, once clamped, never returns to the
\* anchor's day; a still shorter month clamps it further.
C19_DayNeverGrowsBack ==
    NextOccurrenceCalled =>
        LET occs == Steps
        IN  /\ ret = occs[2]
            /\ \A k \in 1..(OccBound - 1) :
                /\ occs[k + 1].d = Min(occs[k].d, MonthLen(occs[k + 1].y, occs[k + 1].m))
                /\ occs[k + 1].d <= occs[k].d
                /\ MonthNo(occs[k + 1]) = MonthNo(occs[k]) + stepMonthsOf(call.freq)
            /\ ret.d < call.d.d => \A k \in 2..OccBound : occs[k].d <= ret.d

C19_Witness ==
    /\ NextOccurrenceCalled
    /\ call.freq = "monthly"
    /\ call.d = D(2023, 0, 31, 0)
    /\ ret = D(2023, 1, 28, 0)
    /\ Steps[3] = D(2023, 2, 28, 0)
    /\ Steps[4] = D(2023, 3, 28, 0)
    /\ Steps[14] = D(2024, 1, 28, 0)

(***************************************************************************)
(* The dashboard's monthly estimate of the shared recurring income.        *)
(***************************************************************************)
startOfMonth(d) == NewDate(d.y, d.m, 1, 0)

\* (r.scope ?? "shared") === "shared"
isShared(r) == (IF "scope" \in DOMAIN r THEN r.scope ELSE "shared") = "shared"

\* the body of "for (const r of rows)"
estimateRow(total, r, som) ==
    LET cents == IF "amountCents" \in DOMAIN r THEN r.amountCents ELSE 0
        end == toDateSafe(r.endDate)
        freq == IF "frequency" \in DOMAIN r THEN r.frequency ELSE "undefined"
    IN  IF ~isShared(r) THEN total
        ELSE IF cents <= 0 THEN total
        ELSE IF end # Null /\ getTime(endOfDay(end)) < getTime(som) THEN total
        ELSE CASE freq = "monthly" -> total + cents
               [] freq = "quarterly" -> total + mathRoundDiv(cents, 3)
               [] freq = "yearly" -> total + mathRoundDiv(cents, 12)
               [] OTHER -> total

RECURSIVE estimateRows(_, _, _, _)
estimateRows(total, rows, i, som) ==
    IF i > Len(rows) THEN total
    ELSE estimateRows(estimateRow(total, rows[i], som), rows, i + 1, som)

calcMonthlyEstimatedIncomeCentsShared(rows, now) ==
    estimateRows(0, rows, 1, startOfMonth(now))

MaxAmount == 48

EstimateRows ==
    {IncomeRow("r1", a, "job", f, sc, "A", D(2024, 0, 1, 0), e) :
        a \in 0..MaxAmount, f \in Frequencies, sc \in {"shared", "personal"},
        e \in {Null, D(2024, 2, 31, 2)}}

EstimateInputs ==
    {<<r>> : r \in EstimateRows}
    \cup {<<a, [b EXCEPT !.id = "r2"]>> :
            a, b \in {r \in EstimateRows :
                        /\ r.amountCents \in {5, 6}
                        /\ r.frequency \in {"quarterly", "yearly"}
                        /\ r.scope = "shared"
                        /\ r.endDate = Null}}

EstimateNows == {D(2024, 5, 30, 0), D(2024, 0, 15, 1)}

CallMonthlyEstimate ==
    /\ call.op = "none"
    /\ \E rows \in EstimateInputs, now \in EstimateNows :
        /\ call' = [op |-> "calcMonthlyEstimatedIncomeCentsShared",
                    rows |-> rows, now |-> now]
        /\ ret' = calcMonthlyEstimatedIncomeCentsShared(rows, now)

CallAggregateAmounts ==
    /\ call.op = "none"
    /\ \E rows \in EstimateInputs, now \in EstimateNows, currentUid \in Uids :
        /\ call' = [op |-> "aggregate", rows |-> rows, now |-> now,
                    currentUid |-> currentUid]
        /\ ret' = aggregate(rows, now)

NextEstimate == CallMonthlyEstimate \/ CallAggregateAmounts

SpecEstimate == Init /\ [][NextEstimate]_vars

EstimateCalled == call.op = "calcMonthlyEstimatedIncomeCentsShared"

\* the monthly equivalent as C20 words it
RoundedShare(freq, a) ==
    CASE freq = "monthly" -> a
      [] freq = "quarterly" -> (2 * a + 3) \div 6
      [] freq = "yearly" -> (a + 6) \div 12
      [] OTHER -> 0

\* q is the integer nearest to a / n, an exact half going up:
\* -1/2 < q - a/n <= 1/2
IsNearest(q, a, n) == (2 * n * q - 2 * a) \in (1 - n)..n

\* the row is counted by the dashboard's estimate
InEstimate(r, now) ==
    /\ isShared(r)
    /\ r.amountCents > 0
    /\ r.endDate # Null =>
        getTime(D(r.endDate.y, r.endDate.m, r.endDate.d, 2)) >= getTime(D(now.y, now.m, 1, 0))

\* C20: the monthly-equivalent division rounds to the nearest integer cent,
\* exact halves away from zero: for every integer a >= 0 a quarterly row
\* adds floor((2a + 3) / 6) and a yearly row floor((a + 6) / 12), and the
\* dashboard's monthly estimate uses the same rounding as the modal's run
\* rate.
C20_RoundsToNearest ==
    (AggCalled \/ EstimateCalled) =>
        LET rows == call.rows
            counted(r) == IF AggCalled
                          THEN r.amountCents > 0 /\ r.frequency \in Recurring
                               /\ ActiveNow(r, call.now)
                          ELSE InEstimate(r, call.now)
            total == IF AggCalled THEN ret.runRateMonthlyCents ELSE ret
        IN  /\ total =
                SumSeq([k \in 1..Len(rows) |->
                    IF counted(rows[k])
                    THEN RoundedShare(rows[k].frequency, rows[k].amountCents)
                    ELSE 0])
            /\ (Len(rows) = 1 /\ counted(rows[1])) =>
                /\ rows[1].frequency = "quarterly" =>
                        IsNearest(total, rows[1].amountCents, 3)
                /\ rows[1].frequency = "yearly" =>
                        IsNearest(total, rows[1].amountCents, 12)

\* a = 6 yearly gives 1 and a = 5 yearly gives 0
C20_Witness ==
    /\ EstimateCalled
    /\ call.now = D(2024, 5, 30, 0)
    /\ call.rows =
        <<IncomeRow("r1", 6, "job", "yearly", "shared", "A", D(2024, 0, 1, 0), Null),
          IncomeRow("r2", 5, "job", "yearly", "shared", "A", D(2024, 0, 1, 0), Null)>>
    /\ ret = 1
    /\ calcMonthlyEstimatedIncomeCentsShared(<<call.rows[1]>>, call.now) = 1
    /\ calcMonthlyEstimatedIncomeCentsShared(<<call.rows[2]>>, call.now) = 0
    /\ aggregate(call.rows, call.now).runRateMonthlyCents = 1

(***************************************************************************)
(* Additivity of the series.                                               *)
(***************************************************************************)
\* the series of row k of the call taken alone
AloneSeries(k) ==
    buildMonthlyIncomeSeries(<<call.rows[k]>>, call.now, call.monthsBack).cents

\* C21: the series of a list is the element-wise sum of the series of each
\* row taken alone; every bucket is >= 0; and a row taken alone adds its
\* amount at most once to a bucket (each bucket is 0 or the amount), a once
\* row to at most one bucket.
C21_SeriesAdditive ==
    SeriesCalled =>
      LET alones == [k \in 1..Len(call.rows) |-> AloneSeries(k)]
      IN
        /\ \A i \in 1..call.monthsBack :
            /\ ret.cents[i] =
                SumSeq([k \in 1..Len(call.rows) |-> alones[k][i]])
            /\ ret.cents[i] >= 0
        /\ \A k \in 1..Len(call.rows) :
            LET alone == alones[k]
                r == call.rows[k]
            IN  /\ \A i \in 1..call.monthsBack :
                    alone[i] # 0 => (WellFormed(r) /\ alone[i] = r.amountCents)
                /\ (WellFormed(r) /\ r.frequency = "once") =>
                    Cardinality({i \in 1..call.monthsBack : alone[i] # 0}) <= 1

C21_Witness ==
    /\ SeriesCalled
    /\ call.now = D(2024, 1, 29, 1)
    /\ call.monthsBack = 3
    /\ call.rows =
        <<Row("r1", 2500, "monthly", "shared", "A", D(2023, 5, 15, 1), Null),
          Row("r2", 2500, "once", "shared", "A", D(2024, 0, 1, 0), Null)>>
    /\ ret.cents = <<2500, 5000, 0>>

(***************************************************************************)
(* The income form (IncomeCreateModal.onSave) and the service calls it     *)
(* makes.  While call.op = "onSave", ret is the incomes collection of the  *)
(* home, a sequence of documents in creation order; call.pc tells where    *)
(* the handler stands: "done", "addDoc" (splitIncomeChange has closed the  *)
(* old segment and awaits addDoc), or "failed" (addDoc rejected and onSave *)
(* caught the error).                                                      *)
(***************************************************************************)
MaxDocs == 2

\* groupId null / undefined
NoGroup == "null"

DocIds == <<"i1", "i2", "i3", "i4">>

startOfDay(d) == NewDate(d.y, d.m, d.d, 0)

addDays(d, days) == NewDate(d.y, d.m, d.d + days, d.t)

\* the later of two yyyy-MM-dd strings
clampISODateMin(valueISO, minISO) ==
    IF getTime(valueISO) < getTime(minISO) THEN minISO ELSE valueISO

\* the document written by addIncome
addIncome(id, amountCents, frequency, date, createdByUid) ==
    [id |-> id, amountCents |-> amountCents, frequency |-> frequency,
     scope |-> "shared", date |-> date, endDate |-> Null,
     groupId |-> NoGroup, createdByUid |-> createdByUid]

\* updateDoc of overwriteIncome when endDate and groupId are given
overwriteIncome(old, amountCents, frequency, date, groupId, endDate) ==
    [old EXCEPT !.amountCents = amountCents, !.frequency = frequency,
                !.date = date, !.groupId = groupId, !.endDate = endDate]

\* updateDoc of overwriteIncome when endDate and groupId are undefined
overwriteIncomeKeepingEnd(old, amountCents, frequency, date) ==
    [old EXCEPT !.amountCents = amountCents, !.frequency = frequency,
                !.date = date]

splitGroupId(old) == IF old.groupId # NoGroup THEN old.groupId ELSE old.id

splitCloseOldAtNewStart(old, newStartDate) ==
    [old EXCEPT !.endDate = startOfDay(newStartDate),
                !.groupId = splitGroupId(old)]

\* step 1 of splitIncomeChange: updateDoc(oldRef, {endDate: oldEnd, groupId})
splitCloseOld(old, newStartDate) ==
    [old EXCEPT !.endDate = addDays(startOfDay(newStartDate), 0 - 1),
                !.groupId = splitGroupId(old)]

\* step 2 of splitIncomeChange: the document given to addDoc
splitNewSegment(id, old, newStartDate, amountCents, frequency, currentUid, endDate) ==
    [id |-> id, amountCents |-> amountCents, frequency |-> frequency,
     scope |-> "shared", date |-> startOfDay(newStartDate),
     endDate |-> endDate, groupId |-> splitGroupId(old),
     createdByUid |-> currentUid]

\* minEndISO: the effective start shown by the form
minEndISO(frequency, date) ==
    IF frequency # "once" THEN startOfMonth(date) ELSE date

\* endDateDate of onSave
endDateDate(stopEnabled, frequency, date, endDate) ==
    IF stopEnabled /\ frequency # "once"
    THEN endOfDay(clampISODateMin(endDate, minEndISO(frequency, date)))
    ELSE Null

\* canSave, as far as the dates decide it: endDateError is null
canSave(isEdit, frequency, date, stopEnabled, endDate) ==
    ~(/\ isEdit
      /\ frequency # "once"
      /\ stopEnabled
      /\ getTime(endDate) < getTime(minEndISO(frequency, date)))

\* does onSave, editing old, take the splitIncomeChange branch
canSplit(old, frequency, date) ==
    /\ frequency # "once" \/ old.frequency # "once"
    /\ getTime(startOfMonth(date)) > getTime(startOfMonth(old.date))

FormDates ==
    {D(2024, 0, 1, 0), D(2024, 0, 15, 0), D(2024, 0, 31, 0),
     D(2024, 1, 1, 0), D(2024, 1, 15, 0), D(2024, 2, 1, 0)}

FormFrequencies == {"once", "monthly", "yearly"}

incomes == IF call.op = "onSave" THEN ret ELSE <<>>

FormIdle ==
    \/ call.op = "none"
    \/ call.op = "onSave" /\ call.pc \in {"done", "failed"}

\* onSave with no initialIncome: addIncome with the date as picked
OnSaveCreate ==
    /\ FormIdle
    /\ Len(incomes) < MaxDocs
    /\ \E frequency \in FormFrequencies, date \in FormDates :
        /\ ret' = Append(incomes,
                         addIncome(DocIds[Len(incomes) + 1], 1000,
                                   frequency, date, "A"))
        /\ call' = [op |-> "onSave", pc |-> "done", branch |-> "addIncome"]

\* onSave with initialIncome = incomes[k]: overwriteIncome, or
\* splitIncomeChange up to its await addDoc
OnSaveEdit ==
    /\ FormIdle
    /\ \E k \in 1..Len(incomes), frequency \in FormFrequencies,
          date \in FormDates, stopEnabled \in BOOLEAN, endDate \in FormDates :
        LET old == incomes[k]
            end == endDateDate(stopEnabled, frequency, date, endDate)
        IN  /\ stopEnabled => frequency # "once"
            /\ canSave(TRUE, frequency, date, stopEnabled, endDate)
            /\ IF frequency # "once" \/ old.frequency # "once"
               THEN IF canSplit(old, frequency, date)
                    THEN /\ Len(incomes) < MaxDocs
                         /\ ret' = [incomes EXCEPT ![k] =
                                        splitCloseOld(old, startOfMonth(date))]
                         /\ call' = [op |-> "onSave", pc |-> "addDoc",
                                     branch |-> "splitIncomeChange",
                                     old |-> old,
                                     segment |->
                                        splitNewSegment(DocIds[Len(incomes) + 1],
                                            old, startOfMonth(date), 1000,
                                            frequency, "A", end)]
                    ELSE /\ ret' = [incomes EXCEPT ![k] =
                                        overwriteIncome(old, 1000, frequency,
                                            startOfMonth(date), old.groupId, end)]
                         /\ call' = [op |-> "onSave", pc |-> "done",
                                     branch |-> "overwriteIncome"]
               ELSE /\ ret' = [incomes EXCEPT ![k] =
                                   overwriteIncomeKeepingEnd(old, 1000,
                                                             frequency, date)]
                    /\ call' = [op |-> "onSave", pc |-> "done",
                                branch |-> "overwriteIncome"]

\* addDoc of splitIncomeChange resolves
SplitAddDocResolves ==
    /\ call.op = "onSave"
    /\ call.pc = "addDoc"
    /\ ret' = Append(ret, call.segment)
    /\ call' = [call EXCEPT !.pc = "done"]

\* addDoc of splitIncomeChange rejects (offline, permission denied): the
\* error reaches the catch of onSave
SplitAddDocRejects ==
    /\ call.op = "onSave"
    /\ call.pc = "addDoc"
    /\ ret' = ret
    /\ call' = [call EXCEPT !.pc = "failed"]

NextForm ==
    \/ OnSaveCreate
    \/ OnSaveEdit
    \/ SplitAddDocResolves
    \/ SplitAddDocRejects

SpecForm == Init /\ [][NextForm]_vars

FormAtRest == call.op = "onSave" /\ call.pc \in {"done", "failed"}

\* C22: after any sequence of create, edit and split operations done through
\* the form, every stored recurring document that has an endDate has
\* endDate >= its own start date, and every once document has endDate null.
C22_EndDateInvariant ==
    FormAtRest =>
        \A k \in 1..Len(ret) :
            IF ret[k].frequency = "once"
            THEN ret[k].endDate = Null
            ELSE ret[k].endDate # Null =>
                    getTime(ret[k].endDate) >= getTime(ret[k].date)

\* the recurring half of C22 alone
RecurringEndNotBeforeStart ==
    FormAtRest =>
        \A k \in 1..Len(ret) :
            (ret[k].frequency # "once" /\ ret[k].endDate # Null) =>
                getTime(ret[k].endDate) >= getTime(ret[k].date)

(***************************************************************************)
(* Day-of-month of a recurring anchor.                                     *)
(***************************************************************************)
\* the row with its date moved to day 1 of the same month
OnDayOne(r) == [r EXCEPT !.date = D(r.date.y, r.date.m, 1, r.date.t)]

OneRecurringStarted ==
    /\ Len(call.rows) = 1
    /\ AllRecurringStarted(call.rows, call.now)

\* C23: projections take a recurring row's anchor at day 1 of its month:
\* every occurrence enumerated for it falls on day 1 of a month whatever the
\* day of its stored date, so two recurring rows that differ only in the
\* day-of-month of their date give the same series and the same
\* year-to-date results.
C23_AnchorTakenAtDayOne ==
    /\ (SeriesCalled /\ OneRecurringStarted) =>
        LET r == call.rows[1]
            from == MonthStartOf(BucketMonth(call.now, call.monthsBack, 1))
            occs == Occurrences(firstOnOrAfter(r.date, from, r.frequency),
                                r.frequency, OccBound)
        IN  /\ \A k \in 1..OccBound : occs[k].d = 1
            /\ ret = buildMonthlyIncomeSeries(<<OnDayOne(r)>>, call.now,
                                              call.monthsBack)
    /\ (AggCalled /\ OneRecurringStarted) =>
        LET r == call.rows[1]
            one == aggregate(<<OnDayOne(r)>>, call.now)
        IN  /\ ret.recurrentYtdCents = one.recurrentYtdCents
            /\ ret.ytdCents = one.ytdCents
            /\ ret.ytdLines = one.ytdLines

\* the second half of C23 for the series alone
SeriesSameAsFromDayOne ==
    (SeriesCalled /\ OneRecurringStarted) =>
        ret = buildMonthlyIncomeSeries(<<OnDayOne(call.rows[1])>>, call.now,
                                       call.monthsBack)

\* the second half of C23 for the year-to-date total alone
YtdSameAsFromDayOne ==
    (AggCalled /\ OneRecurringStarted) =>
        ret.recurrentYtdCents =
            aggregate(<<OnDayOne(call.rows[1])>>, call.now).recurrentYtdCents

(***************************************************************************)
(* The two segments of a split, as the projections see them.               *)
(***************************************************************************)
\* splitIncomeChange has run to its end
SplitDone ==
    /\ call.op = "onSave"
    /\ call.pc = "done"
    /\ call.branch = "splitIncomeChange"

\* the closed old segment and the new one, as stored
OldSegment == ret[CHOOSE k \in 1..Len(ret) : ret[k].id = call.old.id]

NewSegment == ret[Len(ret)]

\* the instant from which the segments are looked at: the end of 2024, and
\* the twelve months of 2024
SegmentNow == D(2024, 11, 31, 2)

SegmentSeries(r) == buildMonthlyIncomeSeries(<<r>>, SegmentNow, 12).cents

\* the months of 2024 in which row r has an occurrence that the
\* year-to-date loop counts
YtdMonths(r) ==
    IF r.frequency = "once"
    THEN IF r.date.y = SegmentNow.y /\ getTime(r.date) <= getTime(SegmentNow)
         THEN {MonthNo(r.date)} ELSE {}
    ELSE
        LET occs == Occurrences(
                        firstOnOrAfter(r.date, D(SegmentNow.y, 0, 1, 0), r.frequency),
                        r.frequency, OccBound)
        IN  {MonthNo(occs[k]) : k \in {j \in 1..OccBound :
                /\ getTime(occs[j]) <= getTime(aggEffectiveEnd(r.endDate, SegmentNow))
                /\ occs[j].y = SegmentNow.y}}

\* C24: after splitIncomeChange has closed an old recurring segment and
\* created the new one with the same groupId, the two never both add to the
\* same calendar month, in the monthly series and in the year-to-date total
\* alike, and the old segment still adds every occurrence it had before the
\* month of the new start.
C24_SegmentsDoNotOverlap ==
    (SplitDone /\ call.old.frequency \in Recurring) =>
        LET old == OldSegment
            new == NewSegment
            open == [old EXCEPT !.endDate = Null]
            so == SegmentSeries(old)
            sn == SegmentSeries(new)
            sopen == SegmentSeries(open)
        IN  /\ new.groupId = old.groupId
            /\ \A i \in 1..12 :
                /\ ~(so[i] > 0 /\ sn[i] > 0)
                /\ so[i] = IF BucketMonth(SegmentNow, 12, i) < MonthNo(new.date)
                           THEN sopen[i] ELSE 0
            /\ YtdMonths(old) \cap YtdMonths(new) = {}
            /\ YtdMonths(old) = {m \in YtdMonths(open) : m < MonthNo(new.date)}
            /\ aggregate(<<old, new>>, SegmentNow).ytdCents =
                old.amountCents * Cardinality(YtdMonths(old))
                + new.amountCents * Cardinality(YtdMonths(new))

\* a monthly income created on 2024-01-15 and changed from March on
C24_Witness ==
    /\ SplitDone
    /\ call.old.frequency = "monthly"
    /\ call.old.date = D(2024, 0, 15, 0)
    /\ OldSegment.endDate = D(2024, 1, 29, 0)
    /\ NewSegment.date = D(2024, 2, 1, 0)
    /\ NewSegment.frequency = "monthly"
    /\ NewSegment.endDate = Null
    /\ SegmentSeries(OldSegment) = <<1000, 1000, 0, 0, 0, 0, 0, 0, 0, 0, 0, 0>>
    /\ SegmentSeries(NewSegment) = <<0, 0, 1000, 1000, 1000, 1000, 1000, 1000, 1000, 1000, 1000, 1000>>

\* splitIncomeChange has written the old document (its first await is over)
SplitStarted ==
    /\ call.op = "onSave"
    /\ call.branch = "splitIncomeChange"

\* C25: splitIncomeChange is all-or-nothing: when the creation of the new
\* segment fails, the old record has the endDate and the groupId it had
\* before the call, and no state has the old segment closed while the new
\* segment does not exist.
C25_SplitAllOrNothing ==
    (SplitStarted /\ call.pc # "done") =>
        /\ OldSegment.endDate = call.old.endDate
        /\ OldSegment.groupId = call.old.groupId

\* C26: splitIncomeChange never lengthens the old segment: when the old
\* record had an endDate before the call, its endDate after the call is not
\* later, and its monthly series has no month it did not have before.
C26_SplitNeverLengthens ==
    (SplitStarted /\ call.old.endDate # Null) =>
        /\ getTime(OldSegment.endDate) <= getTime(call.old.endDate)
        /\ \A i \in 1..12 : SegmentSeries(OldSegment)[i] <= SegmentSeries(call.old)[i]

(***************************************************************************)
(* Homes and join codes: createHome, joinHomeByCode, reserveJoinCode and   *)
(* rotateHomeJoinCode run as concurrent calls against the Firestore        *)
(* collections homes, homeJoinCodes, homes/<id>/members and users.  Every  *)
(* await of the source is one step.  ret holds the collections, call the   *)
(* position of every running call.                                         *)
(***************************************************************************)
\* the ids addDoc gives to new homes, in order
HomeIds == <<"h1", "h2">>

\* the strings makeJoinCode can return
JoinCodes == {"X", "Y", "Z"}

\* the calls that can be in flight together
Procs == {1, 2}

\* calls started in one behaviour
MaxCalls == 4

\* default of the tries parameter of reserveJoinCode
Tries == 8

NoCode == "null"

NoHomeId == "null"

IdleProc == [fn |-> "none", pc |-> "idle"]

homes == ret.homes

homeJoinCodes == ret.homeJoinCodes

procs == call.procs

InitHomes ==
    /\ call = [op |-> "homes", procs |-> [p \in Procs |-> IdleProc]]
    /\ ret = [homes |-> << >>,
              homeJoinCodes |-> [c \in JoinCodes |-> Null],
              members |-> {},
              users |-> [u \in Uids |-> NoHomeId],
              reserved |-> {},
              rotatedUncoded |-> FALSE,
              calls |-> 0]

AtRest(p) == procs[p].pc \in {"idle", "returned"}

CanStart(p) == AtRest(p) /\ ret.calls < MaxCalls

\* ret.reserved (the pairs reserveJoinCode has returned) and
\* ret.rotatedUncoded (a rotation has read a shared home whose joinCode was
\* still null) record the past; no step reads them
Started(p, proc) ==
    /\ call' = [call EXCEPT !.procs[p] = proc]
    /\ ret' = [ret EXCEPT
            !.calls = @ + 1,
            !.rotatedUncoded = @ \/ (proc.pc = "getDoc" /\ proc.prevCode = NoCode)]

Returned(fn, out) == [fn |-> "none", pc |-> "returned", out |-> out]

\* createHome up to its first await: addDoc(homesRef, {joinCode: null, ...})
CreateHomeAddDoc(p) ==
    /\ CanStart(p)
    /\ Len(homes) < Len(HomeIds)
    /\ \E type \in {"personal", "shared"} :
        LET homeId == HomeIds[Len(homes) + 1]
        IN  /\ ret' = [ret EXCEPT
                    !.homes = Append(@, [id |-> homeId, type |-> type,
                                         ownerUid |-> "A", joinCode |-> NoCode]),
                    !.calls = @ + 1]
            /\ call' = [call EXCEPT !.procs[p] =
                    [fn |-> "createHome", uid |-> "A", homeId |-> homeId,
                     pc |-> IF type = "shared" THEN "getDoc" ELSE "setMember",
                     i |-> 0, code |-> NoCode, prevCode |-> NoCode]]

HomeIndex(homeId) == CHOOSE k \in 1..Len(homes) : homes[k].id = homeId

HomeExists(homeId) == \E k \in 1..Len(homes) : homes[k].id = homeId

\* one turn of the loop of reserveJoinCode: makeJoinCode, then
\* await getDoc(codeRef); an existing document is a collision
ReserveGetDoc(p) ==
    /\ procs[p].pc = "getDoc"
    /\ procs[p].i < Tries
    /\ \E code \in JoinCodes :
        IF homeJoinCodes[code] # Null
        THEN call' = [call EXCEPT !.procs[p].i = @ + 1]
        ELSE call' = [call EXCEPT !.procs[p].pc = "setDoc",
                                  !.procs[p].code = code]
    /\ UNCHANGED ret

\* await setDoc(codeRef, {homeId, active: true}); return code
ReserveSetDoc(p) ==
    /\ procs[p].pc = "setDoc"
    /\ ret' = [ret EXCEPT
            !.homeJoinCodes[procs[p].code] =
                [homeId |-> procs[p].homeId, active |-> TRUE],
            !.reserved = @ \cup {<<procs[p].homeId, procs[p].code>>}]
    /\ call' = [call EXCEPT !.procs[p].pc =
            IF procs[p].fn = "createHome" THEN "updateHome" ELSE "commit"]

\* the loop has run out of tries: throw new Error("CODE_GENERATION_FAILED")
ReserveFails(p) ==
    /\ procs[p].pc = "getDoc"
    /\ procs[p].i >= Tries
    /\ call' = [call EXCEPT !.procs[p] =
            Returned(procs[p].fn, "CODE_GENERATION_FAILED")]
    /\ UNCHANGED ret

\* createHome: await updateDoc(doc(homes, homeId), {joinCode})
CreateHomeUpdateDoc(p) ==
    /\ procs[p].pc = "updateHome"
    /\ ret' = [ret EXCEPT !.homes[HomeIndex(procs[p].homeId)].joinCode = procs[p].code]
    /\ call' = [call EXCEPT !.procs[p].pc = "setMember"]

\* createHome and joinHomeByCode: await setDoc(memberRef, {uid, role})
SetMember(p) ==
    /\ procs[p].pc = "setMember"
    /\ ret' = [ret EXCEPT !.members =
            {m \in @ : ~(m[1] = procs[p].homeId /\ m[2] = procs[p].uid)}
            \cup {<<procs[p].homeId, procs[p].uid,
                    IF procs[p].fn = "createHome" THEN "owner" ELSE "member">>}]
    /\ call' = [call EXCEPT !.procs[p].pc = "updateUser"]

\* createHome and joinHomeByCode: await updateDoc(userRef, {homeId}); return
UpdateUser(p) ==
    /\ procs[p].pc = "updateUser"
    /\ ret' = [ret EXCEPT !.users[procs[p].uid] = procs[p].homeId]
    /\ call' = [call EXCEPT !.procs[p] =
            Returned(procs[p].fn, "ok")]

\* joinHomeByCode up to the end of its first await: getDoc(homeJoinCodes/code)
\* and the three checks on the snapshot
JoinHomeGetDoc(p) ==
    /\ CanStart(p)
    /\ \E uid \in {"B"}, code \in JoinCodes :
        LET data == homeJoinCodes[code]
        IN  Started(p,
                IF data = Null THEN Returned("joinHomeByCode", "CODE_NOT_FOUND")
                ELSE IF data.homeId = NoHomeId
                     THEN Returned("joinHomeByCode", "CODE_INVALID")
                ELSE IF data.active # TRUE
                     THEN Returned("joinHomeByCode", "CODE_INACTIVE")
                ELSE [fn |-> "joinHomeByCode", uid |-> uid, homeId |-> data.homeId,
                      pc |-> "setMember", i |-> 0, code |-> code,
                      prevCode |-> NoCode])

\* rotateHomeJoinCode up to the end of its first await: getDoc(homeRef) and
\* the checks on the snapshot; prevCode is read here
RotateGetDoc(p) ==
    /\ CanStart(p)
    /\ \E uid \in Uids, k \in 1..Len(HomeIds) :
        LET homeId == HomeIds[k]
        IN  Started(p,
                IF ~HomeExists(homeId)
                THEN Returned("rotateHomeJoinCode", "HOME_NOT_FOUND")
                ELSE IF homes[HomeIndex(homeId)].ownerUid # uid
                     THEN Returned("rotateHomeJoinCode", "NOT_OWNER")
                ELSE IF homes[HomeIndex(homeId)].type # "shared"
                     THEN Returned("rotateHomeJoinCode", "HOME_NOT_SHARED")
                ELSE [fn |-> "rotateHomeJoinCode", uid |-> uid, homeId |-> homeId,
                      pc |-> "getDoc", i |-> 0, code |-> NoCode,
                      prevCode |-> homes[HomeIndex(homeId)].joinCode])

\* rotateHomeJoinCode: await batch.commit(): the home takes nextCode and the
\* code read at the start is deactivated, in one atomic write
RotateCommit(p) ==
    /\ procs[p].pc = "commit"
    /\ LET k == HomeIndex(procs[p].homeId)
           prevCode == procs[p].prevCode
       IN  ret' = [ret EXCEPT
               !.homes[k].joinCode = procs[p].code,
               !.homeJoinCodes = IF prevCode # NoCode
                                 THEN [@ EXCEPT ![prevCode].active = FALSE]
                                 ELSE @]
    /\ call' = [call EXCEPT !.procs[p] =
            Returned(procs[p].fn, "ok")]

NextHomes ==
    \E p \in Procs :
        \/ CreateHomeAddDoc(p)
        \/ ReserveGetDoc(p)
        \/ ReserveSetDoc(p)
        \/ ReserveFails(p)
        \/ CreateHomeUpdateDoc(p)
        \/ SetMember(p)
        \/ UpdateUser(p)
        \/ JoinHomeGetDoc(p)
        \/ RotateGetDoc(p)
        \/ RotateCommit(p)

SpecHomes == InitHomes /\ [][NextHomes]_vars

\* C27: a join code returned by reserveJoinCode belongs to one home: no two
\* calls for different homes return the same code, under any interleaving.
C27_CodeBelongsToOneHome ==
    \A a \in ret.reserved, b \in ret.reserved : a[2] = b[2] => a[1] = b[1]

\* an existing homeJoinCodes document never changes its homeId (part of C27)
CodeNeverOverwritten ==
    [][\A c \in JoinCodes :
        homeJoinCodes[c] # Null => homeJoinCodes'[c].homeId = homeJoinCodes[c].homeId]_vars

\* a call that fails with CODE_GENERATION_FAILED writes nothing (part of C27)
FailedReserveWritesNothing ==
    [][(\E p \in Procs : ReserveFails(p)) => ret' = ret]_vars

AllAtRest == \A p \in Procs : AtRest(p)

\* C28: once the rotateHomeJoinCode calls have returned, the only active
\* homeJoinCodes entry that points to a home is that home's current joinCode
\* (every rotation having started on a home whose code was set, and no code
\* having been reserved for two homes).
C28_OnlyCurrentCodeActive ==
    (AllAtRest /\ ~ret.rotatedUncoded /\ C27_CodeBelongsToOneHome) =>
        \A c \in JoinCodes, k \in 1..Len(homes) :
            (/\ homeJoinCodes[c] # Null
             /\ homeJoinCodes[c].homeId = homes[k].id
             /\ homeJoinCodes[c].active) => homes[k].joinCode = c

(***************************************************************************)
(* useIncomes: the hook as React drives it.  A render calls the hook with  *)
(* the homeId of the moment and returns its value; the subscribe function  *)
(* changes with homeId, and React unsubscribes the old one and calls the   *)
(* new one when it commits the render, after the hook has returned.  call  *)
(* holds the homeId of the last render, the attached listener and whether  *)
(* a re-subscription is waiting; ret holds the two refs and the value the  *)
(* last render returned.                                                   *)
(***************************************************************************)
\* the largest snapshot version of a behaviour
MaxVersion == 5

\* homeId of a render; "null" is the null homeId
HomeProps == {"null", "H1", "H2"}

IncomeDoc(id, amountCents) == [id |-> id, amountCents |-> amountCents]

\* what the listener of a home can deliver: the documents of that home
Delivered(homeId) ==
    IF homeId = "H1"
    THEN {<< >>, <<IncomeDoc("a1", 100)>>, <<IncomeDoc("a2", 250), IncomeDoc("a1", 100)>>}
    ELSE {<< >>, <<IncomeDoc("b1", 70)>>}

initialSnapshot == [rows |-> << >>, ready |-> FALSE, version |-> 0]

RECURSIVE totalCentsOf(_)
totalCentsOf(rows) ==
    IF rows = << >> THEN 0 ELSE Head(rows).amountCents + totalCentsOf(Tail(rows))

\* getSnapshot of useSyncExternalStore: <<value returned, lastSnapshotRef>>
getSnapshot(snapRef, lastSnapshotRef) ==
    IF lastSnapshotRef.version = snapRef.version THEN lastSnapshotRef ELSE snapRef

\* the value the hook returns for homeId and the snapshot read in the render
useIncomes(homeId, snapshot) ==
    [rows |-> IF homeId # "null" THEN snapshot.rows ELSE << >>,
     loading |-> homeId # "null" /\ ~snapshot.ready,
     totalCents |-> IF homeId = "null" THEN 0 ELSE totalCentsOf(snapshot.rows)]

\* first render of the component
InitIncomes ==
    \E homeId \in HomeProps :
        /\ call = [op |-> "useIncomes", homeId |-> homeId, listening |-> "null",
                   resubscribe |-> TRUE]
        /\ ret = [snapRef |-> initialSnapshot,
                  lastSnapshotRef |-> initialSnapshot,
                  value |-> useIncomes(homeId, initialSnapshot)]

\* a render: the hook runs with homeId and returns; a changed homeId gives a
\* new subscribe function, to be called when the render is committed
Render ==
    /\ call.op = "useIncomes"
    /\ ~call.resubscribe
    /\ \E homeId \in HomeProps :
        LET snapshot == getSnapshot(ret.snapRef, ret.lastSnapshotRef)
        IN  /\ ret' = [ret EXCEPT !.lastSnapshotRef = snapshot,
                                  !.value = useIncomes(homeId, snapshot)]
            /\ call' = [call EXCEPT !.homeId = homeId,
                                    !.resubscribe = homeId # call.homeId]

\* commit of a render whose subscribe function changed: the old listener is
\* detached and subscribe(onStoreChange) runs
Subscribe ==
    /\ call.op = "useIncomes"
    /\ call.resubscribe
    /\ ret.snapRef.version < MaxVersion
    /\ IF call.homeId = "null"
       THEN /\ ret' = ret
            /\ call' = [call EXCEPT !.listening = "null", !.resubscribe = FALSE]
       ELSE /\ ret' = [ret EXCEPT !.snapRef =
                    [rows |-> << >>, ready |-> FALSE, version |-> @.version + 1]]
            /\ call' = [call EXCEPT !.listening = call.homeId,
                                    !.resubscribe = FALSE]

\* the callback given to listenIncomes runs with the rows of its home
ListenerCallback ==
    /\ call.op = "useIncomes"
    /\ call.listening # "null"
    /\ ret.snapRef.version < MaxVersion
    /\ \E r \in Delivered(call.listening) :
        ret' = [ret EXCEPT !.snapRef =
                    [rows |-> r, ready |-> TRUE, version |-> @.version + 1]]
    /\ UNCHANGED call

NextIncomes == Render \/ Subscribe \/ ListenerCallback

SpecIncomes == InitIncomes /\ [][NextIncomes]_vars

\* C29: useIncomes never exposes rows of one home under another: a value
\* returned while homeId is H has rows = [] and loading = true, or rows that
\* the listener of H delivered; with homeId null it has rows = [], loading =
\* false and totalCents = 0.
C29_RowsOfCurrentHomeOnly ==
    call.op = "useIncomes" =>
        IF call.homeId = "null"
        THEN ret.value = [rows |-> << >>, loading |-> FALSE, totalCents |-> 0]
        ELSE \/ ret.value.rows = << >> /\ ret.value.loading
             \/ ret.value.rows \in Delivered(call.homeId) /\ ~ret.value.loading

\* the snapshot version grows at every subscribe and every listener
\* callback (part of C29)
VersionStrictlyIncreases ==
    [][ret'.snapRef # ret.snapRef => ret'.snapRef.version > ret.snapRef.version]_vars

\* with homeId null the hook returns no rows, not loading, total 0 (part of C29)
NullHomeReturnsNothing ==
    (call.op = "useIncomes" /\ call.homeId = "null") =>
        ret.value = [rows |-> << >>, loading |-> FALSE, totalCents |-> 0]

(***************************************************************************)
(* The dashboard's estimate next to the manage modal's run rate: the page  *)
(* computes the estimate from rows and hands the same rows to the modal.   *)
(***************************************************************************)
DashboardRows ==
    {IncomeRow("r1", a, "job", f, sc, "A", date, e) :
        a \in 0..6, f \in Frequencies, sc \in {"shared", "personal"},
        date \in {D(2024, 0, 1, 0), D(2024, 2, 20, 0)},
        e \in {Null, D(2024, 2, 10, 2), D(2024, 2, 31, 2)}}

DashboardNows == {D(2024, 1, 15, 1), D(2024, 2, 15, 1), D(2024, 3, 15, 1)}

\* one render of DashboardPage with the modal open
RenderDashboard ==
    /\ call.op = "none"
    /\ \E r \in DashboardRows, now \in DashboardNows :
        /\ call' = [op |-> "DashboardPage", rows |-> <<r>>, now |-> now]
        /\ ret' = [monthlyEstimate |-> calcMonthlyEstimatedIncomeCentsShared(<<r>>, now),
                   runRateMonthlyCents |-> aggregate(<<r>>, now).runRateMonthlyCents]

NextDashboard == RenderDashboard

SpecDashboard == Init /\ [][NextDashboard]_vars

\* C30: for every now and every list of shared records the dashboard's
\* monthly estimate equals the run rate the manage modal computes for the
\* same rows and now.
C30_EstimateEqualsRunRate ==
    (/\ call.op = "DashboardPage"
     /\ \A k \in 1..Len(call.rows) : isShared(call.rows[k])) =>
        ret.monthlyEstimate = ret.runRateMonthlyCents

=============================================================================
